---- MODULE Spec2Model ----
(***************************************************************************)
(* A model of lib/deflate_decompress.cpp: the full-buffer DEFLATE          *)
(* decompressor (InputStream, build_decode_table, prepare_dynamic,         *)
(* prepare_static, DeflateWindow, do_uncompressed, do_block and            *)
(* libdeflate_deflate_decompress), for a 64-bit machine word.              *)
(*                                                                         *)
(* Representation.                                                         *)
(*  - bitbuf (a 64-bit word) is the array of its 64 bits, bit 0 the       *)
(*    lowest.                                                              *)
(*  - a decode table entry (u32) is a record [sub, v]: sub is bit 31       *)
(*    (HUFFDEC_SUBTABLE_POINTER) and v the low 31 bits.                    *)
(*  - pointers are offsets from the start of their buffer.                 *)
(*  - the bytes of the window, buffer[0 .. next), and the bytes written to *)
(*    the caller's buffer are held as run lists: a sequence of <<byte,     *)
(*    count>> runs with count > 0 and no two neighbouring runs of the same *)
(*    byte, so that equal contents are equal values.                       *)
(*  - a failed assert() (NDEBUG is undefined at line 185, so it prints and *)
(*    calls std::abort) ends the call with status "ABORT".                 *)
(***************************************************************************)
EXTENDS Integers, Sequences, FiniteSets, TLC

(***************************************************************************)
(* Constants of deflate_constants.h (RFC 1951) and of the source.          *)
(***************************************************************************)
DEFLATE_BLOCKTYPE_UNCOMPRESSED == 0
DEFLATE_BLOCKTYPE_STATIC_HUFFMAN == 1
DEFLATE_BLOCKTYPE_DYNAMIC_HUFFMAN == 2
DEFLATE_NUM_PRECODE_SYMS == 19
DEFLATE_NUM_LITLEN_SYMS == 288
DEFLATE_NUM_OFFSET_SYMS == 32
DEFLATE_MAX_PRE_CODEWORD_LEN == 7
DEFLATE_MAX_LITLEN_CODEWORD_LEN == 15
DEFLATE_MAX_OFFSET_CODEWORD_LEN == 15
DEFLATE_MAX_LENS_OVERRUN == 137

PRECODE_TABLEBITS == 7
LITLEN_TABLEBITS == 10
OFFSET_TABLEBITS == 8
PRECODE_ENOUGH == 128
LITLEN_ENOUGH == 1334
OFFSET_ENOUGH == 402

\* sizeof(machine_word_t), and 8 * sizeof(bitbuf_t)
WORDBYTES == 8
bitbuf_length == 64
bitbuf_max_ensure == bitbuf_length - 7

\* DeflateWindow out_block(20, out, out_end), and the 1 << 15 of flush()
WINDOW_BITS == 20
FLUSH_KEEP_BITS == 15

\* An array a[0 .. n-1] of the source is a sequence of length n: At(a, i) is
\* a[i], and Array(n, F) the array with a[i] = F(i).
At(a, i) == a[i + 1]
Array(n, F(_)) == [i1 \in 1..n |-> F(i1 - 1)] \o << >>

Min(a, b) == IF a < b THEN a ELSE b
Max(a, b) == IF a > b THEN a ELSE b

(***************************************************************************)
(* InputStream.  s = [bitbuf, bitsleft, overrun_count, in_next, failed];   *)
(* in is the input (a sequence of bytes), in_end = Len(in).  failed        *)
(* records that an assert of the stream has failed.                        *)
(***************************************************************************)
ZeroWord == Array(bitbuf_length, LAMBDA j : 0)

InputStream_new ==
    [bitbuf |-> ZeroWord, bitsleft |-> 0, overrun_count |-> 0, in_next |-> 0,
     failed |-> FALSE]

BitOr(a, b) == IF a = 1 \/ b = 1 THEN 1 ELSE 0

\* bit j of the byte at offset k of the input
InBit(in, k, j) == (At(in, k) \div (2 ^ j)) % 2

\* the word at in_next read with its first byte as the highest
get_unaligned_beword(in, in_next, j) ==
    InBit(in, in_next + (WORDBYTES - 1 - (j \div 8)), j % 8)

\* bit j of get_unaligned_leword(in_next)
get_unaligned_leword(in, in_next, j) == InBit(in, in_next + (j \div 8), j % 8)

fill_bits_wordwise(in, s) ==
    [s EXCEPT
       !.bitbuf = Array(bitbuf_length, LAMBDA j :
                     IF j >= s.bitsleft
                     THEN BitOr(At(s.bitbuf, j),
                                get_unaligned_leword(in, s.in_next, j - s.bitsleft))
                     ELSE At(s.bitbuf, j)),
       !.in_next = s.in_next + ((bitbuf_length - s.bitsleft) \div 8),
       !.bitsleft = s.bitsleft + ((bitbuf_length - s.bitsleft) \div 8) * 8]

\* have_bits that is content with one bit
have_bits_any(s, n) == s.bitsleft >= Min(n, 1)

have_bits(s, n) == s.bitsleft >= n

\* a bytewise refill that stops after its first byte
fill_bits_bytewise_once(in, s) ==
    IF s.in_next # Len(in)
    THEN [s EXCEPT
            !.bitbuf = Array(bitbuf_length, LAMBDA j :
                          IF j >= s.bitsleft /\ j < s.bitsleft + 8
                          THEN BitOr(At(s.bitbuf, j),
                                     InBit(in, s.in_next, j - s.bitsleft))
                          ELSE At(s.bitbuf, j)),
            !.in_next = s.in_next + 1,
            !.bitsleft = s.bitsleft + 8]
    ELSE [s EXCEPT !.overrun_count = s.overrun_count + 1,
                   !.bitsleft = s.bitsleft + 8]

RECURSIVE fill_bits_bytewise(_, _)
fill_bits_bytewise(in, s) ==
    LET s1 == IF s.in_next # Len(in)
              THEN [s EXCEPT
                      !.bitbuf = Array(bitbuf_length, LAMBDA j :
                                    IF j >= s.bitsleft /\ j < s.bitsleft + 8
                                    THEN BitOr(At(s.bitbuf, j),
                                               InBit(in, s.in_next, j - s.bitsleft))
                                    ELSE At(s.bitbuf, j)),
                      !.in_next = s.in_next + 1]
              ELSE [s EXCEPT !.overrun_count = s.overrun_count + 1]
        s2 == [s1 EXCEPT !.bitsleft = s.bitsleft + 8]
    IN  IF s2.bitsleft <= bitbuf_length - 8 THEN fill_bits_bytewise(in, s2) ELSE s2

\* in_end - in_end
InputStream_size(in) == Len(in) - Len(in)

ensure_bits(in, s, n) ==
    IF have_bits(s, n) THEN s
    ELSE IF Len(in) - s.in_next >= WORDBYTES
         THEN fill_bits_wordwise(in, s)
         ELSE fill_bits_bytewise(in, s)

RECURSIVE LowBits(_, _)
LowBits(bitbuf, n) ==
    IF n = 0 THEN 0 ELSE LowBits(bitbuf, n - 1) + At(bitbuf, n - 1) * (2 ^ (n - 1))

\* the value bits(n) returns; its assert is accounted for by remove_bits and
\* bits_assert
bits(s, n) == LowBits(s.bitbuf, n)

bits_assert(s, n) == [s EXCEPT !.failed = s.failed \/ s.bitsleft < n]

remove_bits(s, n) ==
    IF s.bitsleft < n
    THEN [s EXCEPT !.failed = TRUE]
    ELSE [s EXCEPT
            !.bitbuf = Array(bitbuf_length, LAMBDA j :
                          IF j + n < bitbuf_length THEN At(s.bitbuf, j + n) ELSE 0),
            !.bitsleft = s.bitsleft - n]

\* pop_bits(n) returns bits(s, n) and leaves the stream remove_bits(s, n)
pop_bits(s, n) == remove_bits(s, n)

\* align_input putting back every whole byte of the bit buffer, the
\* made-up ones too
align_input_rewinding(s) ==
    [s EXCEPT
       !.in_next = s.in_next - (s.bitsleft \div 8),
       !.bitbuf = ZeroWord,
       !.bitsleft = 0]

align_input(s) ==
    [s EXCEPT
       !.in_next = s.in_next -
                   ((s.bitsleft \div 8) - Min(s.overrun_count, s.bitsleft \div 8)),
       !.bitbuf = ZeroWord,
       !.bitsleft = 0]

(***************************************************************************)
(* Huffman decoding: decode table entries and build_decode_table.          *)
(***************************************************************************)
HUFFDEC_LITERAL == 2 ^ 30
HUFFDEC_LENGTH_MASK == 255
HUFFDEC_RESULT_SHIFT == 8
HUFFDEC_END_OF_BLOCK_LENGTH == 0
HUFFDEC_EXTRA_OFFSET_BITS_SHIFT == 16

\* a table slot that the last build did not write: its content is whatever
\* the storage held before
Unwritten == [sub |-> 0, v |-> -1]

precode_decode_results == Array(DEFLATE_NUM_PRECODE_SYMS, LAMBDA sym : sym)

literal_entry(literal) == (HUFFDEC_LITERAL \div (2 ^ HUFFDEC_RESULT_SHIFT)) + literal

length_entry(length_base, num_extra_bits) == length_base * 256 + num_extra_bits

\* <<length base, extra bits>> of the litlen symbols 257 .. 287
LengthTable ==
    << <<3, 0>>, <<4, 0>>, <<5, 0>>, <<6, 0>>, <<7, 0>>, <<8, 0>>, <<9, 0>>,
       <<10, 0>>, <<11, 1>>, <<13, 1>>, <<15, 1>>, <<17, 1>>, <<19, 2>>,
       <<23, 2>>, <<27, 2>>, <<31, 2>>, <<35, 3>>, <<43, 3>>, <<51, 3>>,
       <<59, 3>>, <<67, 4>>, <<83, 4>>, <<99, 4>>, <<115, 4>>, <<131, 5>>,
       <<163, 5>>, <<195, 5>>, <<227, 5>>, <<258, 0>>, <<258, 0>>, <<258, 0>> >>

litlen_decode_results ==
    Array(DEFLATE_NUM_LITLEN_SYMS, LAMBDA sym :
       IF sym < 256 THEN literal_entry(sym)
       ELSE IF sym = 256 THEN length_entry(HUFFDEC_END_OF_BLOCK_LENGTH, 0)
       ELSE length_entry(At(LengthTable, sym - 257)[1],
                         At(LengthTable, sym - 257)[2]))

offset_entry(offset_base, num_extra_bits) ==
    offset_base + num_extra_bits * (2 ^ HUFFDEC_EXTRA_OFFSET_BITS_SHIFT)

\* <<offset base, extra bits>> of the offset symbols 0 .. 31
OffsetTable ==
    << <<1, 0>>, <<2, 0>>, <<3, 0>>, <<4, 0>>, <<5, 1>>, <<7, 1>>, <<9, 2>>,
       <<13, 2>>, <<17, 3>>, <<25, 3>>, <<33, 4>>, <<49, 4>>, <<65, 5>>,
       <<97, 5>>, <<129, 6>>, <<193, 6>>, <<257, 7>>, <<385, 7>>, <<513, 8>>,
       <<769, 8>>, <<1025, 9>>, <<1537, 9>>, <<2049, 10>>, <<3073, 10>>,
       <<4097, 11>>, <<6145, 11>>, <<8193, 12>>, <<12289, 12>>, <<16385, 13>>,
       <<24577, 13>>, <<32769, 14>>, <<49153, 14>> >>

offset_decode_results ==
    Array(DEFLATE_NUM_OFFSET_SYMS, LAMBDA sym :
       offset_entry(At(OffsetTable, sym)[1], At(OffsetTable, sym)[2]))

make_decode_table_entry(result, length) ==
    [sub |-> 0, v |-> result * (2 ^ HUFFDEC_RESULT_SHIFT) + length]

\* HUFFDEC_SUBTABLE_POINTER | make_decode_table_entry(start, bits)
subtable_pointer_entry(start, nbits) ==
    [sub |-> 1, v |-> start * (2 ^ HUFFDEC_RESULT_SHIFT) + nbits]

\* entry >> HUFFDEC_RESULT_SHIFT, of the whole 32-bit entry
entry_result(entry) == entry.sub * (2 ^ 23) + (entry.v \div (2 ^ HUFFDEC_RESULT_SHIFT))

\* entry & HUFFDEC_LENGTH_MASK
entry_length(entry) == entry.v % (HUFFDEC_LENGTH_MASK + 1)

\* entry & HUFFDEC_LITERAL
entry_is_literal(entry) == (entry.v \div HUFFDEC_LITERAL) % 2 = 1

\* lines 625-629: len_counts[len] for len in 0..max_codeword_len
len_counts_of(lens, num_syms, max_codeword_len) ==
    Array(max_codeword_len + 1, LAMBDA len :
       Cardinality({sym \in 0..(num_syms - 1) : At(lens, sym) = len}))

\* lines 631-644: the symbols by increasing codeword length, then by
\* increasing symbol value (the counting sort is stable)
RECURSIVE sorted_syms_from(_, _, _, _)
sorted_syms_from(lens, num_syms, max_codeword_len, len) ==
    IF len > max_codeword_len THEN << >>
    ELSE SelectSeq([i \in 1..num_syms |-> i - 1], LAMBDA sym : At(lens, sym) = len)
         \o sorted_syms_from(lens, num_syms, max_codeword_len, len + 1)

sorted_syms_of(lens, num_syms, max_codeword_len) ==
    sorted_syms_from(lens, num_syms, max_codeword_len, 0)

\* codespace_remainder without the test of line 655
RECURSIVE codespace_remainder_clamped(_, _, _, _)
codespace_remainder_clamped(len_counts, len, max_codeword_len, remainder) ==
    IF len > max_codeword_len THEN remainder
    ELSE LET r == 2 * remainder - At(len_counts, len)
         IN  codespace_remainder_clamped(len_counts, len + 1, max_codeword_len,
                                         IF r < 0 THEN 0 ELSE r)

\* lines 651-660: the codespace left after the lengths len .. max, or -1 as
\* soon as it goes negative
RECURSIVE codespace_remainder(_, _, _, _)
codespace_remainder(len_counts, len, max_codeword_len, remainder) ==
    IF len > max_codeword_len THEN remainder
    ELSE LET r == 2 * remainder - At(len_counts, len)
         IN  IF r < 0 THEN -1
             ELSE codespace_remainder(len_counts, len + 1, max_codeword_len, r)

RECURSIVE SumCounts(_, _)
SumCounts(len_counts, len) ==
    IF len < 0 THEN 0 ELSE At(len_counts, len) + SumCounts(len_counts, len - 1)

\* working_space[idx], read through the pointer len_counts: len_counts (as the
\* loop has decremented it), then offsets (as the sort left it: offsets[len]
\* is the number of symbols of length <= len), then sorted_syms.  counts0 is
\* len_counts as first counted.
working_space_at(len_counts, counts0, sorted_syms, max_codeword_len, idx) ==
    IF idx <= max_codeword_len THEN At(len_counts, idx)
    ELSE IF idx <= 2 * max_codeword_len + 1
    THEN SumCounts(counts0, idx - (max_codeword_len + 1))
    ELSE At(sorted_syms, idx - 2 * (max_codeword_len + 1))

\* while (len_counts[codeword_len] == 0) codeword_len++
RECURSIVE next_codeword_len(_, _)
next_codeword_len(len_counts, codeword_len) ==
    IF At(len_counts, codeword_len) = 0
    THEN next_codeword_len(len_counts, codeword_len + 1)
    ELSE codeword_len

\* lines 736-745: the number of bits of a new subtable
RECURSIVE subtable_bits(_, _, _, _)
subtable_bits(ws, table_bits, cur_table_bits, remainder) ==
    LET r == remainder - working_space_at(ws.len_counts, ws.counts0, ws.sorted_syms,
                                          ws.max_codeword_len,
                                          table_bits + cur_table_bits)
    IN  IF r <= 0 THEN cur_table_bits
        ELSE subtable_bits(ws, table_bits, cur_table_bits + 1, 2 * r)

\* lines 784-788: the next bit-reversed codeword
RECURSIVE first_clear_bit(_, _)
first_clear_bit(codeword_reversed, bit) ==
    IF bit > 0 /\ (codeword_reversed \div bit) % 2 = 1
    THEN first_clear_bit(codeword_reversed, bit \div 2)
    ELSE bit

\* the next codeword as an increment of the bit-reversed one
next_codeword_incremented(codeword_reversed, codeword_len) ==
    (codeword_reversed + 1) % (2 ^ codeword_len)

next_codeword_reversed(codeword_reversed, codeword_len) ==
    LET bit == first_clear_bit(codeword_reversed, 2 ^ (codeword_len - 1))
    IN  IF bit = 0 THEN codeword_reversed
        ELSE (codeword_reversed % bit) + bit

\* A loop "do x = step(x) while (!x.done)" of at most fuel passes (fuel > 0):
\* the first half of the passes, then the rest unless the loop has ended.
RECURSIVE Loop(_, _, _)
Loop(step(_), x, fuel) ==
    IF fuel = 1 THEN step(x)
    ELSE LET half == Loop(step, x, fuel \div 2)
         IN  IF half.done THEN half ELSE Loop(step, half, fuel - (fuel \div 2))

\* A store loop "for (i = first; i < end; i += increment) decode_table[i] =
\* entry" is the record [first, end, increment, entry]; the stores of a
\* build are the sequence of its store loops, in program order.
\* a store loop that goes on while i <= end
TableWrite_through(first, end, increment, entry) ==
    [first |-> first, end |-> end + 1, increment |-> increment, entry |-> entry]

TableWrite(first, end, increment, entry) ==
    [first |-> first, end |-> end, increment |-> increment, entry |-> entry]

WritesIndex(w, i) ==
    i >= w.first /\ i < w.end /\ (i - w.first) % w.increment = 0

\* the highest index a store loop writes (first - 1 when it writes nothing)
LastWritten(w) ==
    IF w.first >= w.end THEN w.first - 1
    ELSE w.first + ((w.end - 1 - w.first) \div w.increment) * w.increment

\* the array of length enough after the stores: slot i holds the entry of
\* the last store to it
ApplyWrites(writes, enough) ==
    Array(enough, LAMBDA i :
       LET ks == {k \in 1..Len(writes) : WritesIndex(writes[k], i)}
       IN  IF ks = {} THEN Unwritten
           ELSE writes[CHOOSE k \in ks : \A k2 \in ks : k2 <= k].entry)

\* lines 711-800: one pass of the loop over the used symbols.  b holds the
\* loop's variables and the stores made so far.
build_decode_table_pass(b, sorted_syms, counts0, decode_results, table_bits, max_codeword_len) ==
    LET sym == At(sorted_syms, b.sym_idx)
        prefix == b.codeword_reversed % (2 ^ table_bits)
        new_subtable == b.codeword_len > table_bits /\ prefix # b.cur_codeword_prefix
        cur_table_start == IF new_subtable
                           THEN b.cur_table_start + 2 ^ b.cur_table_bits
                           ELSE b.cur_table_start
        cur_table_bits ==
            IF new_subtable
            THEN subtable_bits(
                   [len_counts |-> b.len_counts, counts0 |-> counts0,
                    sorted_syms |-> sorted_syms,
                    max_codeword_len |-> max_codeword_len],
                   table_bits,
                   b.codeword_len - table_bits,
                   2 ^ (b.codeword_len - table_bits))
            ELSE b.cur_table_bits
        num_dropped_bits == IF new_subtable THEN table_bits ELSE b.num_dropped_bits
        entry == make_decode_table_entry(At(decode_results, sym),
                                         b.codeword_len - num_dropped_bits)
        pointer == IF new_subtable
                   THEN << TableWrite(prefix, prefix + 1, 1,
                                      subtable_pointer_entry(cur_table_start,
                                                             cur_table_bits)) >>
                   ELSE << >>
        fill == TableWrite(
                  cur_table_start + (b.codeword_reversed \div (2 ^ num_dropped_bits)),
                  cur_table_start + 2 ^ cur_table_bits,
                  2 ^ (b.codeword_len - num_dropped_bits),
                  entry)
        counts == Array(max_codeword_len + 1, LAMBDA len :
                     IF len = b.codeword_len THEN At(b.len_counts, len) - 1
                     ELSE At(b.len_counts, len))
        last_pass == b.sym_idx + 1 = Len(sorted_syms)
    IN  [len_counts |-> IF last_pass THEN b.len_counts ELSE counts,
         codeword_len |-> IF last_pass THEN b.codeword_len
                          ELSE next_codeword_len(counts, b.codeword_len),
         codeword_reversed |->
             next_codeword_reversed(b.codeword_reversed, b.codeword_len),
         cur_codeword_prefix |-> IF new_subtable THEN prefix
                                 ELSE b.cur_codeword_prefix,
         cur_table_start |-> cur_table_start,
         cur_table_bits |-> cur_table_bits,
         num_dropped_bits |-> num_dropped_bits,
         sym_idx |-> b.sym_idx + 1,
         writes |-> (b.writes \o pointer) \o << fill >>,
         done |-> last_pass]

\* code_kind without line 675: a completely empty code is not accepted
code_kind_no_empty(len_counts, max_codeword_len) ==
    LET remainder == codespace_remainder(len_counts, 1, max_codeword_len, 1)
    IN  IF remainder < 0 THEN "over"
        ELSE IF remainder = 0 THEN "complete"
        ELSE IF remainder # 2 ^ (max_codeword_len - 1) \/ At(len_counts, 1) # 1
        THEN "invalid"
        ELSE "single"

\* lines 624-688: the checks that precede the loop.  "over" (over-subscribed:
\* nothing stored), "invalid" (incomplete and not accepted), "empty" (accepted,
\* defaults only), "single" or "complete".
code_kind(len_counts, max_codeword_len) ==
    LET remainder == codespace_remainder(len_counts, 1, max_codeword_len, 1)
    IN  IF remainder < 0 THEN "over"
        ELSE IF remainder = 0 THEN "complete"
        ELSE IF remainder = 2 ^ max_codeword_len THEN "empty"
        ELSE IF remainder # 2 ^ (max_codeword_len - 1) \/ At(len_counts, 1) # 1
        THEN "invalid"
        ELSE "single"

\* the stores of build_decode_table, in program order
build_decode_table_writes(lens, num_syms, decode_results, table_bits, max_codeword_len) ==
    LET len_counts == len_counts_of(lens, num_syms, max_codeword_len)
        sorted_syms == sorted_syms_of(lens, num_syms, max_codeword_len)
        kind == code_kind(len_counts, max_codeword_len)
        defaults == << TableWrite(0, 2 ^ table_bits, 1,
                                  make_decode_table_entry(At(decode_results, 0), 1)) >>
        b0 == [len_counts |-> len_counts,
               codeword_len |-> next_codeword_len(len_counts, 1),
               codeword_reversed |-> 0,
               cur_codeword_prefix |-> -1,
               cur_table_start |-> 0,
               cur_table_bits |-> table_bits,
               num_dropped_bits |-> 0,
               sym_idx |-> At(len_counts, 0),
               writes |-> IF kind = "single" THEN defaults ELSE << >>,
               done |-> FALSE]
    IN  IF kind = "over" THEN << >>
        ELSE IF kind \in {"empty", "invalid"} THEN defaults
        ELSE Loop(LAMBDA b : build_decode_table_pass(b, sorted_syms, len_counts,
                                                     decode_results, table_bits,
                                                     max_codeword_len),
                  b0, num_syms).writes

\* build_decode_table; enough is the length of the array decode_table.
\* Returns [ok, decode_table, writes]: ok is the function's result,
\* decode_table the array as the stores within it leave it, starting from an
\* array of Unwritten slots.
build_decode_table(lens, num_syms, decode_results, table_bits, max_codeword_len, enough) ==
    LET writes == build_decode_table_writes(lens, num_syms, decode_results,
                                            table_bits, max_codeword_len)
        kind == code_kind(len_counts_of(lens, num_syms, max_codeword_len),
                          max_codeword_len)
    IN  [ok |-> kind \in {"empty", "single", "complete"},
         decode_table |-> ApplyWrites(writes, enough),
         writes |-> writes]

build_precode_decode_table(precode_lens) ==
    build_decode_table(precode_lens, DEFLATE_NUM_PRECODE_SYMS,
                       precode_decode_results, PRECODE_TABLEBITS,
                       DEFLATE_MAX_PRE_CODEWORD_LEN, PRECODE_ENOUGH)

build_litlen_decode_table(lens, num_litlen_syms, num_offset_syms) ==
    build_decode_table(lens, num_litlen_syms, litlen_decode_results,
                       LITLEN_TABLEBITS, DEFLATE_MAX_LITLEN_CODEWORD_LEN,
                       LITLEN_ENOUGH)

\* d->u.l.lens + num_litlen_syms
build_offset_decode_table(lens, num_litlen_syms, num_offset_syms) ==
    build_decode_table(SubSeq(lens, num_litlen_syms + 1,
                              num_litlen_syms + num_offset_syms),
                       num_offset_syms, offset_decode_results,
                       OFFSET_TABLEBITS, DEFLATE_MAX_OFFSET_CODEWORD_LEN,
                       OFFSET_ENOUGH)

\* static_lens with the lengths 8 and 9 of the literals exchanged
static_lens_swapped ==
    Array(DEFLATE_NUM_LITLEN_SYMS + DEFLATE_NUM_OFFSET_SYMS, LAMBDA i :
       IF i < 144 THEN 9
       ELSE IF i < 256 THEN 8
       ELSE IF i < 280 THEN 7
       ELSE IF i < DEFLATE_NUM_LITLEN_SYMS THEN 8
       ELSE 5)

\* lines 1007-1016: the codeword lengths of the static Huffman codes
static_lens ==
    Array(DEFLATE_NUM_LITLEN_SYMS + DEFLATE_NUM_OFFSET_SYMS, LAMBDA i :
       IF i < 144 THEN 8
       ELSE IF i < 256 THEN 9
       ELSE IF i < 280 THEN 7
       ELSE IF i < DEFLATE_NUM_LITLEN_SYMS THEN 8
       ELSE 5)

(***************************************************************************)
(* Run lists.                                                              *)
(***************************************************************************)
RECURSIVE RunsLen(_)
RunsLen(runs) ==
    IF runs = << >> THEN 0 ELSE runs[1][2] + RunsLen(Tail(runs))

\* the byte at offset i
RECURSIVE RunsAt(_, _)
RunsAt(runs, i) ==
    IF i < runs[1][2] THEN runs[1][1] ELSE RunsAt(Tail(runs), i - runs[1][2])

\* the first n bytes, and the bytes from offset n on
RECURSIVE RunsTake(_, _)
RunsTake(runs, n) ==
    IF n <= 0 \/ runs = << >> THEN << >>
    ELSE IF n < runs[1][2] THEN << <<runs[1][1], n>> >>
    ELSE << runs[1] >> \o RunsTake(Tail(runs), n - runs[1][2])

RECURSIVE RunsDrop(_, _)
RunsDrop(runs, n) ==
    IF n <= 0 \/ runs = << >> THEN runs
    ELSE IF n < runs[1][2]
    THEN << <<runs[1][1], runs[1][2] - n>> >> \o Tail(runs)
    ELSE RunsDrop(Tail(runs), n - runs[1][2])

RunsCat(a, b) ==
    IF a = << >> THEN b
    ELSE IF b = << >> THEN a
    ELSE IF a[Len(a)][1] = b[1][1]
    THEN (SubSeq(a, 1, Len(a) - 1) \o << <<b[1][1], a[Len(a)][2] + b[1][2]>> >>)
         \o Tail(b)
    ELSE a \o b

\* the run list of a sequence of bytes
SeqRuns(bytes) ==
    LET starts == {i \in 1..Len(bytes) : i = 1 \/ bytes[i] # bytes[i - 1]}
        start(k) == CHOOSE i \in starts : Cardinality({j \in starts : j < i}) = k - 1
        stop(k) == IF k = Cardinality(starts) THEN Len(bytes) + 1 ELSE start(k + 1)
    IN  [k \in 1..Cardinality(starts) |-> <<bytes[start(k)], stop(k) - start(k)>>]
        \o << >>

(***************************************************************************)
(* The caller's output buffer out[0 .. out_nbytes_avail): data is the run  *)
(* list of the bytes stored so far (the stores go upwards from out), and   *)
(* beyond the number of bytes stored at or after out + out_nbytes_avail.   *)
(***************************************************************************)
OutputBuffer_new == [data |-> << >>, beyond |-> 0]

\* memcpy(target, bytes, n) with target_end = out + out_nbytes_avail
target_memcpy(o, target, bytes, n, target_end) ==
    LET inside == Max(0, Min(n, target_end - target))
    IN  [data |-> RunsCat(RunsTake(o.data, target), RunsTake(bytes, inside)),
         beyond |-> o.beyond + (n - inside)]

(***************************************************************************)
(* DeflateWindow.  w = [data, next, current_blk, first_ref, first_blk,     *)
(* blk_count, target, failed]: data is buffer[0 .. next), the pointers     *)
(* into buffer are offsets from buffer and target is an offset from out.   *)
(* The words that copy_match stores past next + length are not part of     *)
(* data: they are stored over before they are read.                        *)
(***************************************************************************)
DeflateWindow_new ==
    [data |-> << >>, next |-> 0, current_blk |-> 0, first_ref |-> 0,
     first_blk |-> 0, blk_count |-> 0, target |-> 0, failed |-> FALSE]

buffer_end == 2 ^ WINDOW_BITS

window_size(w) == w.next

available(w) == buffer_end - w.next

window_fail(w) == [w EXCEPT !.failed = TRUE]

push(w, c) ==
    IF ~(w.next < buffer_end) \/ ~(available(w) > 0) THEN window_fail(w)
    ELSE [w EXCEPT !.data = RunsCat(w.data, << <<c, 1>> >>), !.next = w.next + 1]

\* lines 1148-1184 for offset # 1: byte j of the destination is byte j of the
\* source, which from j = offset on is a byte the copy has stored
copied_bytes(w, length, offset) ==
    SeqRuns([j \in 1..length |->
               RunsAt(w.data, (w.next - offset) + ((j - 1) % offset))])

\* lines 1164-1170: repeat_byte(*(dst - 1)) stored over the destination
repeated_byte(w, length) == << <<RunsAt(w.data, w.next - 1), length>> >>

copy_match(w, length, offset) ==
    IF ~(offset <= window_size(w)) \/ ~(available(w) >= length) \/ ~(offset > 0)
    THEN window_fail(w)
    ELSE LET fast == length <= 3 * WORDBYTES /\ offset >= WORDBYTES
                     /\ length + 3 * WORDBYTES <= buffer_end - w.next
             bytes == IF ~fast /\ buffer_end - (w.next + length) >= WORDBYTES - 1
                         /\ offset = 1
                      THEN repeated_byte(w, length)
                      ELSE copied_bytes(w, length, offset)
         IN  [w EXCEPT
                !.first_ref = Min(w.first_ref, w.next - offset),
                !.data = RunsCat(w.data, bytes),
                !.next = w.next + length]

\* InputStream::pop_u16: the stream after it (the value is le16 below)
pop_u16(in, s) ==
    IF ~(InputStream_size(in) >= 2) THEN [s EXCEPT !.failed = TRUE]
    ELSE [s EXCEPT !.in_next = s.in_next + 2]

get_unaligned_le16(in, in_next) == At(in, in_next) + 256 * At(in, in_next + 1)

\* InputStream::copy: the stream after it; the bytes copied are
\* in[in_next .. in_next + n)
stream_copy(in, s, n) ==
    IF ~(InputStream_size(in) >= n) THEN [s EXCEPT !.failed = TRUE]
    ELSE [s EXCEPT !.in_next = s.in_next + n]

\* DeflateWindow::copy: [w, s] after it
window_copy(in, w, s, length) ==
    IF ~(available(w) >= length) THEN [w |-> window_fail(w), s |-> s]
    ELSE LET s1 == stream_copy(in, s, length)
         IN  IF s1.failed THEN [w |-> window_fail(w), s |-> s1]
             ELSE [w |-> [w EXCEPT
                            !.data = RunsCat(w.data,
                                       SeqRuns(SubSeq(in, s.in_next + 1,
                                                      s.in_next + length))),
                            !.next = w.next + length],
                   s |-> s1]

\* flush with memcpy(buffer, buffer, keep_size) at line 1220: the oldest
\* bytes stay in the window
flush_keeping_oldest(w, o, target_end) ==
    LET keep_size == Max(2 ^ FLUSH_KEEP_BITS, w.next - w.current_blk)
        evict_size == window_size(w) - keep_size
        o1 == target_memcpy(o, w.target, w.data, evict_size, target_end)
        w2 == [w EXCEPT
                 !.target = w.target + evict_size,
                 !.data = RunsTake(w.data, keep_size),
                 !.next = keep_size,
                 !.blk_count = 0,
                 !.current_blk = w.current_blk - evict_size,
                 !.first_blk = w.current_blk - evict_size,
                 !.first_ref = w.current_blk - evict_size]
    IN  IF ~(w.next >= w.current_blk) THEN [w |-> window_fail(w), o |-> o]
        ELSE IF ~(window_size(w) > keep_size) THEN [w |-> w, o |-> o]
        ELSE IF ~(w.target + evict_size < target_end)
                \/ ~(keep_size < w.next - keep_size)
        THEN [w |-> window_fail(w), o |-> o]
        ELSE [w |-> w2, o |-> o1]

\* DeflateWindow::flush: [w, o] after it, o the caller's buffer
flush(w, o, target_end) ==
    IF ~(w.next >= w.current_blk) THEN [w |-> window_fail(w), o |-> o]
    ELSE LET keep_size == Max(2 ^ FLUSH_KEEP_BITS, w.next - w.current_blk)
             evict_size == window_size(w) - keep_size
             o1 == target_memcpy(o, w.target, w.data, evict_size, target_end)
             w1 == [w EXCEPT !.target = w.target + evict_size]
             w2 == [w1 EXCEPT
                      !.data = RunsTake(RunsDrop(w.data, w.next - keep_size),
                                        keep_size),
                      !.next = keep_size,
                      !.blk_count = 0,
                      !.current_blk = w.current_blk - evict_size]
         IN  IF ~(window_size(w) > keep_size) THEN [w |-> w, o |-> o]
             ELSE IF ~(w.target + evict_size < target_end)
             THEN [w |-> window_fail(w), o |-> o]
             ELSE IF ~(evict_size = w.next - keep_size)
                     \/ ~(keep_size < w.next - keep_size)
             THEN [w |-> window_fail(w1), o |-> o1]
             ELSE IF ~(w2.current_blk >= 0)
             THEN [w |-> window_fail(w2), o |-> o1]
             ELSE [w |-> [w2 EXCEPT !.first_blk = w2.current_blk,
                                    !.first_ref = w2.current_blk],
                   o |-> o1]

\* DeflateWindow::full_flush: [w, o] after it
full_flush(w, o, target_end) ==
    IF ~(w.current_blk = w.next) THEN [w |-> window_fail(w), o |-> o]
    ELSE IF ~(w.target + window_size(w) >= target_end)
    THEN [w |-> window_fail(w), o |-> o]
    ELSE [w |-> w,
          o |-> target_memcpy(o, w.target, w.data, window_size(w), target_end)]

notify_end_block(w) ==
    [w EXCEPT !.current_blk = w.next, !.blk_count = w.blk_count + 1]

\* do_uncompressed: [s, w] after it; a failed assert is s.failed or w.failed
do_uncompressed(in, s, w) ==
    LET s0 == align_input(s)
        s1 == pop_u16(in, s0)
        len == get_unaligned_le16(in, s0.in_next)
        s2 == pop_u16(in, s1)
        nlen == get_unaligned_le16(in, s1.in_next)
    IN  IF ~(InputStream_size(in) >= 4) THEN [s |-> [s0 EXCEPT !.failed = TRUE], w |-> w]
        ELSE IF s1.failed THEN [s |-> s1, w |-> w]
        ELSE IF s2.failed THEN [s |-> s2, w |-> w]
        ELSE IF ~(len = (65535 - nlen)) \/ ~(len <= InputStream_size(in))
        THEN [s |-> [s2 EXCEPT !.failed = TRUE], w |-> w]
        ELSE window_copy(in, w, s2, len)

(***************************************************************************)
(* prepare_dynamic and prepare_static.  Both return [s, litlen_decode_table,*)
(* offset_decode_table, failed]: the stream and the tables of d after the  *)
(* call, and whether an assert has failed.                                 *)
(***************************************************************************)
deflate_precode_lens_permutation ==
    <<16, 17, 18, 0, 8, 7, 9, 6, 10, 5, 11, 4, 12, 3, 13, 2, 14, 1, 15>>

\* lens without the room for the last run's overrun
NUM_LENS_no_overrun == DEFLATE_NUM_LITLEN_SYMS + DEFLATE_NUM_OFFSET_SYMS

NUM_LENS == DEFLATE_NUM_LITLEN_SYMS + DEFLATE_NUM_OFFSET_SYMS + DEFLATE_MAX_LENS_OVERRUN

\* lines 917-921: precode_lens after the two loops; s holds the 3-bit fields
precode_lens_of(s, num_explicit_precode_lens) ==
    Array(DEFLATE_NUM_PRECODE_SYMS, LAMBDA sym :
       LET i == (CHOOSE k \in 1..DEFLATE_NUM_PRECODE_SYMS :
                    deflate_precode_lens_permutation[k] = sym) - 1
       IN  IF i < num_explicit_precode_lens
           THEN bits(remove_bits(s, 3 * i), 3)
           ELSE 0)

\* repeat_lens with the check that zlib makes ("invalid bit length repeat"):
\* the run must end within the num_syms lengths
repeat_lens_bounded(x, s3, rep_val, stored, rep_count, num_syms) ==
    [s |-> s3,
     lens |-> Array(NUM_LENS, LAMBDA k :
                 IF k >= x.i /\ k < x.i + stored THEN rep_val
                 ELSE At(x.lens, k)),
     i |-> x.i + rep_count,
     failed |-> s3.failed \/ x.i + rep_count > num_syms,
     done |-> s3.failed \/ x.i + rep_count >= num_syms]

\* repeat_lens with i advanced by the number of lengths stored
repeat_lens_by_stored(x, s3, rep_val, stored, rep_count, num_syms) ==
    [s |-> s3,
     lens |-> Array(NUM_LENS, LAMBDA k :
                 IF k >= x.i /\ k < x.i + stored THEN rep_val
                 ELSE At(x.lens, k)),
     i |-> x.i + stored,
     failed |-> s3.failed,
     done |-> s3.failed \/ x.i + stored >= num_syms]

\* lines 963-995: a run of rep_count lengths rep_val from lens[i] on, of
\* which `stored' are stored (6, 10 or rep_count); s3 is the stream after
\* the repeat count.  No store is beyond lens: i <= 319 and stored <= 138.
repeat_lens(x, s3, rep_val, stored, rep_count, num_syms) ==
    [s |-> s3,
     lens |-> Array(NUM_LENS, LAMBDA k :
                 IF k >= x.i /\ k < x.i + stored THEN rep_val
                 ELSE At(x.lens, k)),
     i |-> x.i + rep_count,
     failed |-> s3.failed,
     done |-> s3.failed \/ x.i + rep_count >= num_syms]

\* lines 927-996: one pass of the loop that expands the codeword lengths.
\* x = [s, lens, i, failed, done]
expand_lens_pass(in, x, precode_decode_table, num_syms) ==
    LET s1 == ensure_bits(in, x.s, DEFLATE_MAX_PRE_CODEWORD_LEN + 7)
        entry == At(precode_decode_table, bits(s1, DEFLATE_MAX_PRE_CODEWORD_LEN))
        s2 == remove_bits(bits_assert(s1, DEFLATE_MAX_PRE_CODEWORD_LEN),
                          entry_length(entry))
        presym == entry_result(entry)
        nbits == IF presym = 16 THEN 2 ELSE IF presym = 17 THEN 3 ELSE 7
        rep_count == (IF presym = 16 THEN 3 ELSE IF presym = 17 THEN 3 ELSE 11)
                     + bits(s2, nbits)
        s3 == pop_bits(s2, nbits)
        stored == IF presym = 16 THEN 6 ELSE IF presym = 17 THEN 10 ELSE rep_count
        rep_val == IF presym = 16 THEN At(x.lens, x.i - 1) ELSE 0
    IN  IF s2.failed
        THEN [x EXCEPT !.s = s2, !.failed = TRUE, !.done = TRUE]
        ELSE IF presym < 16
        THEN [s |-> s2,
              lens |-> Array(NUM_LENS, LAMBDA k :
                          IF k = x.i THEN presym ELSE At(x.lens, k)),
              i |-> x.i + 1,
              failed |-> FALSE,
              done |-> x.i + 1 >= num_syms]
        ELSE IF presym = 16 /\ ~(x.i # 0)
        THEN [x EXCEPT !.s = s2, !.failed = TRUE, !.done = TRUE]
        ELSE repeat_lens(x, s3, rep_val, stored, rep_count, num_syms)

\* lines 998-999: the two tables are built from lens, the offset table first
prepare_dynamic_tables(s, lens, num_litlen_syms, num_offset_syms, d) ==
    LET offset == build_offset_decode_table(lens, num_litlen_syms, num_offset_syms)
        litlen == build_litlen_decode_table(lens, num_litlen_syms, num_offset_syms)
    IN  IF ~offset.ok
        THEN [s |-> s, litlen_decode_table |-> d.litlen_decode_table,
              offset_decode_table |-> offset.decode_table, failed |-> TRUE]
        ELSE [s |-> s, litlen_decode_table |-> litlen.decode_table,
              offset_decode_table |-> offset.decode_table, failed |-> ~litlen.ok]

\* lines 926-999, x the variables of the loop after its last pass
prepare_dynamic_expanded(x, num_litlen_syms, num_offset_syms, d) ==
    IF x.failed
    THEN [s |-> x.s, litlen_decode_table |-> d.litlen_decode_table,
          offset_decode_table |-> d.offset_decode_table, failed |-> TRUE]
    ELSE prepare_dynamic_tables(x.s, x.lens, num_litlen_syms, num_offset_syms, d)

\* lines 923-999, s the stream after the precode lengths are read
prepare_dynamic_lens(in, s, precode_lens, num_syms, num_litlen_syms, num_offset_syms, d) ==
    LET precode == build_precode_decode_table(precode_lens)
    IN  IF s.failed \/ ~precode.ok
        THEN [s |-> s, litlen_decode_table |-> d.litlen_decode_table,
              offset_decode_table |-> d.offset_decode_table, failed |-> TRUE]
        ELSE prepare_dynamic_expanded(
               Loop(LAMBDA y : expand_lens_pass(in, y, precode.decode_table, num_syms),
                    \* lens shares its storage with precode_lens
                    [s |-> s,
                     lens |-> Array(NUM_LENS, LAMBDA k :
                                 IF k < DEFLATE_NUM_PRECODE_SYMS
                                 THEN At(precode_lens, k) ELSE 0),
                     i |-> 0, failed |-> FALSE, done |-> FALSE],
                    num_syms),
               num_litlen_syms, num_offset_syms, d)

\* lines 914-999, s the stream after the three counts are read
prepare_dynamic_precode(in, s, num_litlen_syms, num_offset_syms, num_explicit_precode_lens, d) ==
    prepare_dynamic_lens(in, remove_bits(s, 3 * num_explicit_precode_lens),
                         precode_lens_of(s, num_explicit_precode_lens),
                         num_litlen_syms + num_offset_syms,
                         num_litlen_syms, num_offset_syms, d)

prepare_dynamic(in, s, d) ==
    prepare_dynamic_precode(
       in,
       ensure_bits(in, pop_bits(pop_bits(pop_bits(s, 5), 5), 4),
                   DEFLATE_NUM_PRECODE_SYMS * 3),
       bits(s, 5) + 257,
       bits(pop_bits(s, 5), 5) + 1,
       bits(pop_bits(pop_bits(s, 5), 5), 4) + 4,
       d)

static_offset_decode_table ==
    build_offset_decode_table(static_lens, DEFLATE_NUM_LITLEN_SYMS,
                              DEFLATE_NUM_OFFSET_SYMS)

static_litlen_decode_table ==
    build_litlen_decode_table(static_lens, DEFLATE_NUM_LITLEN_SYMS,
                              DEFLATE_NUM_OFFSET_SYMS)

prepare_static(s, d) ==
    IF ~static_offset_decode_table.ok
    THEN [s |-> s, litlen_decode_table |-> d.litlen_decode_table,
          offset_decode_table |-> static_offset_decode_table.decode_table,
          failed |-> TRUE]
    ELSE [s |-> s,
          litlen_decode_table |-> static_litlen_decode_table.decode_table,
          offset_decode_table |-> static_offset_decode_table.decode_table,
          failed |-> ~static_litlen_decode_table.ok]

(***************************************************************************)
(* The calls that are checked: the input in[0 .. in_nbytes) of each, and,  *)
(* for a well-formed stream, its decompressed bytes (as zlib inflates it)  *)
(* as a run list.  nbytes is the size the capacities are chosen around.    *)
(***************************************************************************)
Repeated(pattern, count) ==
    [i \in 1..(Len(pattern) * count) |-> pattern[((i - 1) % Len(pattern)) + 1]]
    \o << >>

\* one final static block holding only the end-of-block symbol
in_empty_static ==
    [bytes |->
          <<3, 0>>,
     well_formed |-> TRUE,
     nbytes |-> 0,
     plain |-> << >>]

\* deflate of "A": one final static block
in_A ==
    [bytes |->
          <<115, 4, 0>>,
     well_formed |-> TRUE,
     nbytes |-> 1,
     plain |-> << <<65, 1>> >>]

\* deflate of "a": one final static block
in_a ==
    [bytes |->
          <<75, 4, 0>>,
     well_formed |-> TRUE,
     nbytes |-> 1,
     plain |-> << <<97, 1>> >>]

\* one final stored block, LEN = 0
in_stored_empty ==
    [bytes |->
          <<1, 0, 0, 255, 255>>,
     well_formed |-> TRUE,
     nbytes |-> 0,
     plain |-> << >>]

\* one final stored block holding HELLO
in_stored_HELLO ==
    [bytes |->
          <<1, 5, 0, 250, 255, 72, 69, 76, 76, 79>>,
     well_formed |-> TRUE,
     nbytes |-> 5,
     plain |-> << <<72, 1>>, <<69, 1>>, <<76, 2>>, <<79, 1>> >>]

\* static block: A, B, match (6, 2)
in_ABABABAB ==
    [bytes |->
          <<115, 116, 130, 64, 0>>,
     well_formed |-> TRUE,
     nbytes |-> 8,
     plain |-> << <<65, 1>>, <<66, 1>>, <<65, 1>>, <<66, 1>>, <<65, 1>>, <<66,
               1>>, <<65, 1>>, <<66, 1>> >>]

\* a static block with A, then a final static block with B
in_two_blocks ==
    [bytes |->
          <<114, 4, 204, 9, 0>>,
     well_formed |-> TRUE,
     nbytes |-> 2,
     plain |-> << <<65, 1>>, <<66, 1>> >>]

\* a final dynamic block with matches (zlib level 9)
in_dynamic ==
    [bytes |->
          <<53, 140, 193, 13, 0, 0, 12, 1, 103, 213, 253, 135, 40, 46, 30,
            130, 171, 84, 58, 233, 172, 120, 21, 75, 118, 25, 106,
            13, 10, 1, 238, 84, 58, 76, 97, 194, 184, 132, 71, 142,
            15>>,
     well_formed |-> TRUE,
     nbytes |-> 109,
     plain |-> << <<97, 2>>, <<98, 1>>, <<97, 2>>, <<98, 2>>, <<97, 3>>, <<98,
               1>>, <<97, 3>>, <<98, 1>>, <<97, 6>>, <<98, 2>>,
               <<97, 4>>, <<98, 1>>, <<97, 1>>, <<98, 1>>, <<97,
               3>>, <<98, 1>>, <<97, 3>>, <<98, 1>>, <<97, 9>>,
               <<98, 1>>, <<97, 2>>, <<98, 1>>, <<97, 3>>, <<98,
               1>>, <<97, 1>>, <<98, 1>>, <<97, 3>>, <<98, 1>>,
               <<97, 9>>, <<98, 1>>, <<97, 2>>, <<98, 1>>, <<97,
               11>>, <<98, 1>>, <<97, 6>>, <<98, 1>>, <<97, 7>>,
               <<98, 1>>, <<97, 1>>, <<98, 1>>, <<97, 6>> >>]

\* a final dynamic block of literals (zlib, Huffman only)
in_dynamic_literals ==
    [bytes |->
          <<5, 193, 1, 1, 0, 0, 0, 130, 160, 173, 216, 255, 15, 1, 0, 0, 0, 0,
            64, 181, 3>>,
     well_formed |-> TRUE,
     nbytes |-> 44,
     plain |-> << <<97, 40>>, <<98, 3>>, <<99, 1>> >>]

\* a block header with BTYPE = 3
in_reserved ==
    [bytes |->
          <<7, 0>>,
     well_formed |-> FALSE,
     nbytes |-> 0,
     plain |-> << >>]

\* a stored block with LEN = 5 and NLEN = 0
in_stored_mismatch ==
    [bytes |->
          <<1, 5, 0, 0, 0, 72, 69, 76, 76, 79>>,
     well_formed |-> FALSE,
     nbytes |-> 5,
     plain |-> << >>]

\* a dynamic block with HCLEN = 4 and precode lengths 1, 1, 1, 0
in_oversubscribed ==
    [bytes |->
          <<5, 0, 146, 0, 0, 0>>,
     well_formed |-> FALSE,
     nbytes |-> 0,
     plain |-> << >>]

\* deflate of "A" without its last byte
in_truncated ==
    [bytes |->
          <<115, 4>>,
     well_formed |-> FALSE,
     nbytes |-> 1,
     plain |-> << >>]

\* static block: A, match (3, 2)
in_offset_too_far ==
    [bytes |->
          <<115, 4, 66, 0>>,
     well_formed |-> FALSE,
     nbytes |-> 4,
     plain |-> << >>]

\* static block: A, 128 matches (258, 1), match (3, 32768)
in_offset_32768 ==
    [bytes |->
          <<115, 28>>
       \o Repeated(<<5, 163, 96, 20, 140, 130, 81, 48, 10, 70, 193, 40, 24>>,
            15)
       \o <<5, 163, 96, 20, 140, 130, 81, 48, 10, 70, 193, 40, 0, 222, 255,
            15, 0>>,
     well_formed |-> TRUE,
     nbytes |-> 33028,
     plain |-> << <<65, 33028>> >>]

\* static block: A, 128 matches (258, 1), match (3, 32769)
in_offset_32769 ==
    [bytes |->
          <<115, 28>>
       \o Repeated(<<5, 163, 96, 20, 140, 130, 81, 48, 10, 70, 193, 40, 24>>,
            15)
       \o <<5, 163, 96, 20, 140, 130, 81, 48, 10, 70, 193, 40, 0, 62, 0, 0,
            0>>,
     well_formed |-> FALSE,
     nbytes |-> 33028,
     plain |-> << >>]

\* one final static block: A, 4070 matches (258, 1)
in_long_block ==
    [bytes |->
          <<115, 28>>
       \o Repeated(<<5, 163, 96, 20, 140, 130, 81, 48, 10, 70, 193, 40, 24>>,
            508)
       \o <<5, 163, 96, 20, 140, 130, 81, 48, 10, 0>>,
     well_formed |-> TRUE,
     nbytes |-> 1050061,
     plain |-> << <<65, 1050061>> >>]

\* static block: A, 3000 matches (258, 1); final static block: 1070 matches (258, 1)
in_long ==
    [bytes |->
          <<114, 28>>
       \o Repeated(<<5, 163, 96, 20, 140, 130, 81, 48, 10, 70, 193, 40, 24>>,
            374)
       \o <<5, 163, 96, 20, 140, 130, 81, 48, 10, 70, 193, 40, 0, 108>>
       \o Repeated(<<20, 140, 130, 81, 48, 10, 70, 193, 40, 24, 5, 163, 96>>,
            133)
       \o <<20, 140, 130, 81, 48, 10, 70, 193, 40, 0, 0>>,
     well_formed |-> TRUE,
     nbytes |-> 1050061,
     plain |-> << <<65, 1050061>> >>]

\* a final dynamic block, HLIT = 257, HDIST = 1, whose last precode symbol
\* (16, repeat 3) stores the lengths 257, 258 and 259: a, a, end of block
in_lens_overrun ==
    [bytes |->
          <<5, 192, 133, 0, 0, 0, 0, 0, 32, 214, 252, 37, 26, 2>>,
     well_formed |-> FALSE,
     nbytes |-> 2,
     plain |-> << >>]

\* the same with an empty offset code, whose last precode symbol (18, 138
\* zeros) stores the lengths 257 .. 394
in_lens_overrun_zeros ==
    [bytes |->
          <<5, 192, 129, 0, 0, 0, 0, 0, 144, 86, 255, 19, 254, 9>>,
     well_formed |-> FALSE,
     nbytes |-> 2,
     plain |-> << >>]

\* a final dynamic block whose only offset length is 0: a, a, end of block
in_empty_offset_code ==
    [bytes |->
          <<5, 192, 129, 8, 0, 0, 0, 0, 32, 214, 253, 37, 142>>,
     well_formed |-> TRUE,
     nbytes |-> 2,
     plain |-> << <<97, 2>> >>]

\* a final dynamic block whose only offset length is 0 and whose litlen
\* code has the length symbol 257: a, a match of length 3, end of block
in_empty_offset_match ==
    [bytes |->
          <<13, 192, 1, 9, 0, 0, 0, 128, 160, 173, 254, 63, 81,
            120>>,
     well_formed |-> FALSE,
     nbytes |-> 4,
     plain |-> << >>]

\* the same block without the literal: a match of length 3, end of block
in_empty_offset_match_first ==
    [bytes |->
          <<13, 192, 1, 9, 0, 0, 0, 128, 160, 173, 254, 63, 81,
            44>>,
     well_formed |-> FALSE,
     nbytes |-> 3,
     plain |-> << >>]

\* a final dynamic block whose litlen and offset codes have codewords of 1 to
\* 15 bits: a, z (15 bits), a match of length symbol 284 (15 bits, 5 extra
\* bits: 257) and offset symbol 0 (15 bits: 1), end of block
in_subtables ==
    [bytes |->
          <<229, 253, 219, 146, 36, 73, 146, 44, 203, 126, 43, 178, 168, 121,
            100, 245, 172, 253, 3, 231, 235, 233, 67, 206, 65, 98,
            81, 243, 200, 234, 89, 251, 15, 142, 255, 223, 255, 223,
            255, 255, 2>>,
     well_formed |-> TRUE,
     nbytes |-> 259,
     plain |-> << <<97, 1>>, <<122, 258>> >>]

\* a like block with HDIST = 31 whose offset symbols 1 and 30 have the
\* codewords of 15 bits: a, a match of length symbol 284 (15 bits, 5 extra
\* bits: 258) and offset symbol 30 (15 bits, 14 extra bits: 49152), end of
\* block
in_subtables_far ==
    [bytes |->
          <<229, 254, 219, 146, 36, 73, 146, 44, 203, 126, 43, 178, 168, 121,
            100, 245, 172, 253, 3, 231, 235, 233, 67, 14, 30, 98,
            81, 243, 200, 234, 89, 251, 19, 142, 255, 255, 255, 255,
            255, 255, 1>>,
     well_formed |-> FALSE,
     nbytes |-> 1,
     plain |-> << >>]

\* a static block with A, B, then a final static block with a match (4, 2)
\* that copies them
in_two_blocks_match ==
    [bytes |->
          <<114, 116, 2, 12, 4, 1>>,
     well_formed |-> TRUE,
     nbytes |-> 6,
     plain |-> << <<65, 1>>, <<66, 1>>, <<65, 1>>, <<66, 1>>, <<65, 1>>, <<66, 1>> >>]

\* deflate of "A" (one final static block) followed by the bytes of a static
\* block with B and by 255s: bytes that are not part of the stream
in_trailing ==
    [bytes |->
          <<115, 4, 0, 115, 2, 0, 255, 255, 255, 255, 255>>,
     well_formed |-> TRUE,
     nbytes |-> 1,
     plain |-> << <<65, 1>> >>]

Inputs ==
    << in_empty_static,
       in_A,
       in_a,
       in_stored_empty,
       in_stored_HELLO,
       in_ABABABAB,
       in_two_blocks,
       in_dynamic,
       in_dynamic_literals,
       in_reserved,
       in_stored_mismatch,
       in_oversubscribed,
       in_truncated,
       in_offset_too_far,
       in_offset_32768,
       in_offset_32769,
       in_long_block,
       in_long,
       in_lens_overrun,
       in_lens_overrun_zeros,
       in_empty_offset_code,
       in_empty_offset_match,
       in_empty_offset_match_first,
       in_subtables,
       in_subtables_far,
       in_two_blocks_match,
       in_trailing >>

\* the capacities tried reach CapSlack bytes below and above nbytes
CapSlack == 1

Capacities(nbytes) ==
    {0} \cup {n \in (nbytes - CapSlack)..(nbytes + CapSlack) : n >= 0}

(***************************************************************************)
(* One call of libdeflate_deflate_decompress(d, in, in_nbytes, out,        *)
(* out_nbytes_avail, actual_out_nbytes_ret).                               *)
(***************************************************************************)
VARIABLES
    input,                  \* the call's input is Inputs[input].bytes
    out_nbytes_avail,
    actual_out_nbytes_ret,  \* the caller's *actual_out_nbytes_ret
    out,                    \* the caller's buffer, out[0 .. out_nbytes_avail)
    d,                      \* [litlen_decode_table, offset_decode_table]
    in_stream,
    out_block,
    is_final_block,
    last,                   \* the symbol of the last pass of the decode loop
    pc,                     \* "do_block", "decode", "full_flush" or "done"
    status,                 \* "running", the result returned, "abort" or "crash"
    call                    \* a function of the decompressor called on its own:
                            \* its name, its arguments and what it returned

vars == <<input, out_nbytes_avail, actual_out_nbytes_ret, out, d, in_stream,
          out_block, is_final_block, last, pc, status, call>>

in == Inputs[input].bytes

\* what the caller's size_t holds before the call
NotSet == -1

no_symbol == [op |-> "none", length |-> 0, offset |-> 0, size |-> 0]

\* the whole of libdeflate_deflate_decompress runs: no function is called
\* on its own
whole_call == [fn |-> "libdeflate_deflate_decompress"]

\* libdeflate_alloc_decompressor: new libdeflate_decompressor() is zeroed
libdeflate_alloc_decompressor ==
    [litlen_decode_table |-> Array(LITLEN_ENOUGH, LAMBDA i : [sub |-> 0, v |-> 0]),
     offset_decode_table |-> Array(OFFSET_ENOUGH, LAMBDA i : [sub |-> 0, v |-> 0])]

Init ==
    /\ input \in 1..Len(Inputs)
    /\ out_nbytes_avail \in Capacities(Inputs[input].nbytes)
    /\ actual_out_nbytes_ret = NotSet
    /\ out = OutputBuffer_new
    /\ d = libdeflate_alloc_decompressor
    /\ in_stream = InputStream_new
    /\ out_block = DeflateWindow_new
    /\ is_final_block = FALSE
    /\ last = no_symbol
    /\ pc = "do_block"
    /\ status = "running"
    /\ call = whole_call

\* a failed assert: std::abort
Abort ==
    /\ pc' = "done"
    /\ status' = "abort"

\* the block header read with BTYPE before BFINAL
block_header_type_first ==
    LET s1 == ensure_bits(in, in_stream, 1 + 2 + 5 + 5 + 4)
        s2 == pop_bits(s1, 2)
    IN  [s |-> pop_bits(s2, 1), is_final_block |-> bits(s2, 1) = 1,
         btype |-> bits(s1, 2)]

\* lines 1289-1295: [s, is_final_block, btype] after the block header
block_header ==
    LET s1 == ensure_bits(in, in_stream, 1 + 2 + 5 + 5 + 4)
        s2 == pop_bits(s1, 1)
    IN  [s |-> pop_bits(s2, 2), is_final_block |-> bits(s1, 1) = 1,
         btype |-> bits(s2, 2)]

\* a Huffman block: prepare is prepare_dynamic or prepare_static
HuffmanBlock(prepare) ==
    /\ in_stream' = prepare.s
    /\ is_final_block' = block_header.is_final_block
    /\ d' = [litlen_decode_table |-> prepare.litlen_decode_table,
             offset_decode_table |-> prepare.offset_decode_table]
    /\ IF prepare.failed THEN Abort
       ELSE pc' = "decode" /\ status' = status
    /\ UNCHANGED <<call, input, out_nbytes_avail, actual_out_nbytes_ret, out,
                   out_block, last>>

BlockDynamic ==
    /\ pc = "do_block"
    /\ block_header.btype = DEFLATE_BLOCKTYPE_DYNAMIC_HUFFMAN
    /\ LET prepare == prepare_dynamic(in, block_header.s, d)
       IN  HuffmanBlock(prepare)

BlockStatic ==
    /\ pc = "do_block"
    /\ block_header.btype = DEFLATE_BLOCKTYPE_STATIC_HUFFMAN
    /\ HuffmanBlock(prepare_static(block_header.s, d))

BlockUncompressed ==
    /\ pc = "do_block"
    /\ block_header.btype = DEFLATE_BLOCKTYPE_UNCOMPRESSED
    /\ LET r == do_uncompressed(in, block_header.s, out_block)
       IN  /\ in_stream' = r.s
           /\ out_block' = r.w
           /\ is_final_block' = block_header.is_final_block
           /\ IF r.s.failed \/ r.w.failed THEN Abort
              ELSE /\ pc' = IF block_header.is_final_block THEN "full_flush"
                            ELSE "do_block"
                   /\ status' = status
    /\ UNCHANGED <<call, input, out_nbytes_avail, actual_out_nbytes_ret, out, d, last>>

\* default: assert(false)
BlockReserved ==
    /\ pc = "do_block"
    /\ block_header.btype \notin {DEFLATE_BLOCKTYPE_DYNAMIC_HUFFMAN,
                                  DEFLATE_BLOCKTYPE_UNCOMPRESSED,
                                  DEFLATE_BLOCKTYPE_STATIC_HUFFMAN}
    /\ in_stream' = block_header.s
    /\ is_final_block' = block_header.is_final_block
    /\ Abort
    /\ UNCHANGED <<call, input, out_nbytes_avail, actual_out_nbytes_ret, out, d,
                   out_block, last>>

HUFFDEC_EXTRA_LENGTH_BITS_MASK == 255
HUFFDEC_LENGTH_BASE_SHIFT == 8
HUFFDEC_OFFSET_BASE_MASK == (2 ^ HUFFDEC_EXTRA_OFFSET_BITS_SHIFT) - 1

\* lines 1320-1328 and 1364-1372: [s, entry] after a symbol is decoded with
\* decode_table, whose main table has table_bits bits
decode_symbol(s, decode_table, table_bits) ==
    LET entry == At(decode_table, bits(s, table_bits))
        s1 == remove_bits(bits_assert(s, table_bits), table_bits)
        s2 == bits_assert(s1, entry_length(entry))
        subentry == At(decode_table,
                       ((entry.v \div (2 ^ HUFFDEC_RESULT_SHIFT)) % 65536)
                       + bits(s1, entry_length(entry)))
    IN  IF entry.sub = 1
        THEN IF s2.failed THEN [s |-> s2, entry |-> entry]
             ELSE [s |-> remove_bits(s2, entry_length(subentry)), entry |-> subentry]
        ELSE [s |-> remove_bits(bits_assert(s, table_bits), entry_length(entry)),
              entry |-> entry]

\* lines 1318-1328: the litlen symbol of this pass of the decode loop
litlen_symbol ==
    decode_symbol(ensure_bits(in, in_stream, DEFLATE_MAX_LITLEN_CODEWORD_LEN),
                  d.litlen_decode_table, LITLEN_TABLEBITS)

\* lines 1337-1343: [s, length] of a litlen symbol that is not a literal
match_length(litlen) ==
    LET entry == entry_result(litlen.entry)
        s1 == ensure_bits(in, litlen.s, bitbuf_max_ensure)
        nbits == entry % (HUFFDEC_EXTRA_LENGTH_BITS_MASK + 1)
    IN  [s |-> pop_bits(s1, nbits),
         length |-> (entry \div (2 ^ HUFFDEC_LENGTH_BASE_SHIFT)) + bits(s1, nbits)]

\* lines 1364-1378: [s, offset] decoded from the stream s
match_offset(s) ==
    LET sym == decode_symbol(s, d.offset_decode_table, OFFSET_TABLEBITS)
        entry == entry_result(sym.entry)
        nbits == entry \div (2 ^ HUFFDEC_EXTRA_OFFSET_BITS_SHIFT)
    IN  [s |-> pop_bits(sym.s, nbits),
         offset |-> (entry % (HUFFDEC_OFFSET_BASE_MASK + 1)) + bits(sym.s, nbits)]

\* length - 1 >= out.available() of u32 length: 0 - 1 is 2^32 - 1
no_room(w, length) == length = 0 \/ length - 1 >= available(w)

DecodeLiteral ==
    LET litlen == litlen_symbol
        fl == IF available(out_block) = 0
              THEN flush(out_block, out, out_nbytes_avail)
              ELSE [w |-> out_block, o |-> out]
        c == entry_result(litlen.entry) % 256
        w == IF fl.w.failed THEN fl.w ELSE push(fl.w, c)
    IN  /\ pc = "decode"
        /\ entry_is_literal(litlen.entry)
        /\ in_stream' = litlen.s
        /\ IF litlen.s.failed
           THEN Abort /\ UNCHANGED <<out, out_block, last>>
           ELSE /\ out' = fl.o
                /\ out_block' = w
                /\ last' = [op |-> "literal", length |-> 1, offset |-> 0,
                            size |-> window_size(fl.w)]
                /\ IF w.failed THEN Abort
                   ELSE pc' = "decode" /\ status' = status
        /\ UNCHANGED <<call, input, out_nbytes_avail, actual_out_nbytes_ret, d,
                       is_final_block>>

DecodeEndOfBlock ==
    LET litlen == litlen_symbol
        len == match_length(litlen)
    IN  /\ pc = "decode"
        /\ ~entry_is_literal(litlen.entry)
        /\ len.length = HUFFDEC_END_OF_BLOCK_LENGTH
        /\ in_stream' = len.s
        /\ IF len.s.failed
           THEN Abort /\ UNCHANGED <<out_block, last>>
           ELSE /\ out_block' = notify_end_block(out_block)
                /\ last' = [op |-> "end_of_block", length |-> 0, offset |-> 0,
                            size |-> window_size(out_block)]
                /\ pc' = IF is_final_block THEN "full_flush" ELSE "do_block"
                /\ status' = status
        /\ UNCHANGED <<call, input, out_nbytes_avail, actual_out_nbytes_ret, out, d,
                       is_final_block>>

DecodeMatch ==
    LET litlen == litlen_symbol
        len == match_length(litlen)
        length == len.length
        fl == IF no_room(out_block, length)
              THEN flush(out_block, out, out_nbytes_avail)
              ELSE [w |-> out_block, o |-> out]
        m == match_offset(len.s)
        w == copy_match(fl.w, length, m.offset)
    IN  /\ pc = "decode"
        /\ ~entry_is_literal(litlen.entry)
        /\ length # HUFFDEC_END_OF_BLOCK_LENGTH
        /\ IF len.s.failed
           THEN /\ in_stream' = len.s
                /\ Abort
                /\ UNCHANGED <<out, out_block, last>>
           ELSE IF fl.w.failed \/ no_room(fl.w, length) \/ ~(length > 0)
           THEN /\ in_stream' = len.s
                /\ out' = fl.o
                /\ out_block' = fl.w
                /\ Abort
                /\ UNCHANGED last
           ELSE IF m.s.failed
           THEN /\ in_stream' = m.s
                /\ out' = fl.o
                /\ out_block' = fl.w
                /\ Abort
                /\ UNCHANGED last
           ELSE /\ in_stream' = m.s
                /\ out' = fl.o
                /\ out_block' = w
                /\ last' = [op |-> "match", length |-> length, offset |-> m.offset,
                            size |-> window_size(fl.w)]
                /\ IF w.failed THEN Abort
                   ELSE pc' = "decode" /\ status' = status
        /\ UNCHANGED <<call, input, out_nbytes_avail, actual_out_nbytes_ret, d,
                       is_final_block>>

\* lines 1405-1407.  A memcpy that stores beyond the caller's buffer is
\* undefined: the call goes on to return, or the process is killed.
FullFlush ==
    /\ pc = "full_flush"
    /\ LET fl == full_flush(out_block, out, out_nbytes_avail)
       IN  /\ out' = fl.o
           /\ out_block' = fl.w
           /\ pc' = "done"
           /\ IF fl.w.failed THEN status' = "abort"
              ELSE status' \in IF fl.o.beyond > 0
                               THEN {"LIBDEFLATE_SUCCESS", "crash"}
                               ELSE {"LIBDEFLATE_SUCCESS"}
    /\ UNCHANGED <<call, input, out_nbytes_avail, actual_out_nbytes_ret, d, in_stream,
                   is_final_block, last>>

Next ==
    \/ BlockDynamic
    \/ BlockUncompressed
    \/ BlockStatic
    \/ BlockReserved
    \/ DecodeLiteral
    \/ DecodeEndOfBlock
    \/ DecodeMatch
    \/ FullFlush

Spec == Init /\ [][Next]_vars

(***************************************************************************)
(* Properties of libdeflate_deflate_decompress.                            *)
(***************************************************************************)

\* the call has returned, or the process has been stopped
returned == pc = "done"

\* the stream is a complete DEFLATE stream, and the bytes it encodes
well_formed == Inputs[input].well_formed
nbytes == Inputs[input].nbytes
plain == Inputs[input].plain

\* bits of input the decoder has consumed: the bytes read, the zero bytes
\* made up beyond the end, less the bits still in the bit buffer
consumed_bits ==
    8 * (in_stream.in_next + in_stream.overrun_count) - in_stream.bitsleft

\* bytes the call has produced: those moved to the caller's buffer and
\* those still in the window
produced == out_block.target + window_size(out_block)

\* C1: a well-formed stream whose decoded size is at most the capacity of
\* the output buffer, strictly smaller included, ends with
\* LIBDEFLATE_SUCCESS and no assertion abort.  Stated for the streams
\* whose last block has been decoded up to its end-of-block symbol, where
\* only full_flush is left to run.
C1_SuccessWhenOutputFits ==
    (returned /\ well_formed /\ nbytes <= out_nbytes_avail
              /\ last.op = "end_of_block")
        => status = "LIBDEFLATE_SUCCESS"

\* C2: the bytes delivered to the caller for a well-formed stream of
\* Huffman-coded blocks are exactly the bytes the stream encodes, however
\* often the window had to evict a prefix on the way.  Stated for an output
\* buffer of exactly the decoded size.
C2_RoundTrip ==
    (returned /\ well_formed /\ out_nbytes_avail = nbytes /\ last.op # "none")
        => (status = "LIBDEFLATE_SUCCESS" /\ out.data = plain)

\* C3: a stored block copies its LEN bytes to the output and the call
\* succeeds: 01 00 00 FF FF gives the empty output and
\* 01 05 00 FA FF 48 45 4C 4C 4F gives HELLO.
C3_StoredBlock ==
    (returned /\ Inputs[input] \in {in_stored_empty, in_stored_HELLO}
              /\ nbytes <= out_nbytes_avail)
        => (status = "LIBDEFLATE_SUCCESS" /\ out.data = plain)

\* C4: when the call returns LIBDEFLATE_SUCCESS, *actual_out_nbytes_ret
\* holds the number of bytes produced.
C4_ActualOutSet ==
    status = "LIBDEFLATE_SUCCESS" => actual_out_nbytes_ret = produced

\* C5: no byte is ever stored at or after out + out_nbytes_avail, and a
\* stream that decodes to more bytes than the capacity ends with
\* LIBDEFLATE_SHORT_OUTPUT, not with LIBDEFLATE_SUCCESS.  The status is
\* stated for the streams whose last block has been decoded up to its
\* end-of-block symbol.
C5_NoWriteBeyondCapacity ==
    /\ out.beyond = 0
    /\ (returned /\ well_formed /\ nbytes > out_nbytes_avail
                 /\ last.op = "end_of_block")
           => status = "LIBDEFLATE_SHORT_OUTPUT"

\* C6: when decoding has consumed more bits than the input holds, the
\* call does not succeed: it returns LIBDEFLATE_BAD_DATA.
C6_InputOverrun ==
    (returned /\ consumed_bits > 8 * Len(in))
        => status = "LIBDEFLATE_BAD_DATA"

\* C7: the reserved block type 3, and a stored block whose LEN is not the
\* complement of NLEN, make the call return LIBDEFLATE_BAD_DATA.
C7_BadBlockHeader ==
    (returned /\ Inputs[input] \in {in_reserved, in_stored_mismatch})
        => status = "LIBDEFLATE_BAD_DATA"

\* C8: a dynamic block whose precode is over-subscribed (HCLEN = 4 with
\* the lengths 1, 1, 1, 0) makes the call return LIBDEFLATE_BAD_DATA.
C8_BadHuffmanCode ==
    (returned /\ Inputs[input] = in_oversubscribed)
        => status = "LIBDEFLATE_BAD_DATA"

\* C9: a match whose offset exceeds the bytes in the window makes the call
\* return LIBDEFLATE_BAD_DATA, and copies no byte.
C9_OffsetBeyondWindow ==
    (last.op = "match" /\ last.offset > last.size)
        => (status = "LIBDEFLATE_BAD_DATA"
            /\ window_size(out_block) = last.size)

\* C10: a match that has been copied has an offset in 1..32768, even when
\* the window holds more bytes than that.
C10_OffsetRange ==
    (last.op = "match" /\ window_size(out_block) = last.size + last.length)
        => last.offset \in 1..32768

\* the final block has been decoded up to its end-of-block symbol
stream_decoded == last.op = "end_of_block" /\ pc \in {"full_flush", "done"}

\* C11 as claimed: a dynamic block whose last run of lengths overshoots
\* HLIT + HDIST is rejected: no symbol of the block is decoded and the
\* call returns LIBDEFLATE_BAD_DATA.
C11_LensOverrunRejected ==
    Inputs[input] \in {in_lens_overrun, in_lens_overrun_zeros}
        => (last.op = "none" /\ (returned => status = "LIBDEFLATE_BAD_DATA"))

\* C11 as amended: the overshoot is not rejected.  The excess lengths are
\* ignored and the block is decoded with its first HLIT + HDIST lengths:
\* the call gets to the end of the stream having produced a, a, and
\* returns them with LIBDEFLATE_SUCCESS when they fill the output buffer.
C11_LensOverrunIgnored ==
    (Inputs[input] \in {in_lens_overrun, in_lens_overrun_zeros} /\ returned)
        => /\ stream_decoded
           /\ out_block.data = << <<97, 2>> >>
           /\ out_nbytes_avail = 2
                  => (status = "LIBDEFLATE_SUCCESS" /\ out.data = << <<97, 2>> >>)

C11_Witness ==
    /\ Inputs[input] = in_lens_overrun_zeros
    /\ returned
    /\ status = "LIBDEFLATE_SUCCESS"
    /\ out.data = << <<97, 2>> >>

\* C12 as claimed: in a block whose offset code is completely empty, a
\* decoded match makes the decompression fail and copies no byte.
C12_EmptyOffsetMatchFails ==
    (Inputs[input] \in {in_empty_offset_match, in_empty_offset_match_first}
       /\ last.op = "match")
        => (returned /\ status # "LIBDEFLATE_SUCCESS"
            /\ window_size(out_block) = last.size)

\* C12 as amended: a block whose offset code is completely empty is
\* accepted and decoded when no match occurs in it; a match decoded in such
\* a block is not rejected: its offset comes from the default table entry
\* (offset 1, one bit), and it is copied when the window holds a byte.  With
\* an empty window the offset exceeds the window and copy_match's assert
\* stops the process, no byte copied.
C12_EmptyOffsetCode ==
    /\ (Inputs[input] = in_empty_offset_code /\ returned)
          => /\ stream_decoded
             /\ out_block.data = plain
             /\ out_nbytes_avail = nbytes
                    => (status = "LIBDEFLATE_SUCCESS" /\ out.data = plain)
    /\ (Inputs[input] \in {in_empty_offset_match, in_empty_offset_match_first}
          /\ last.op = "match")
          => /\ last.offset = 1
             /\ last.size >= 1
                    => (status = "running"
                        /\ window_size(out_block) = last.size + last.length)
             /\ last.size = 0
                    => (status = "abort" /\ window_size(out_block) = 0)

C12_Witness ==
    /\ Inputs[input] = in_empty_offset_match
    /\ last.op = "match"
    /\ last.offset = 1
    /\ out_block.data = << <<97, 4>> >>

\* C13 as claimed: the input 4B 04 00 decompresses to the one byte 41.
C13_Output41 ==
    (Inputs[input] = in_a /\ returned /\ out_nbytes_avail = 1)
        => (status = "LIBDEFLATE_SUCCESS" /\ out.data = << <<65, 1>> >>)

\* C13 as amended: the input 4B 04 00 (BFINAL = 1, BTYPE = 01, one
\* literal, end-of-block) decodes to exactly the one byte 61, which the
\* call delivers with LIBDEFLATE_SUCCESS into a buffer of one byte; the
\* input that decodes to the one byte 41 is 73 04 00.
C13_Output61 ==
    /\ (Inputs[input] = in_a /\ returned)
          => /\ stream_decoded
             /\ out_block.data = << <<97, 1>> >>
             /\ out_nbytes_avail = 1
                    => (status = "LIBDEFLATE_SUCCESS"
                        /\ out.data = << <<97, 1>> >>)
    /\ (Inputs[input] = in_A /\ returned)
          => /\ stream_decoded
             /\ out_block.data = << <<65, 1>> >>
             /\ out_nbytes_avail = 1
                    => (status = "LIBDEFLATE_SUCCESS"
                        /\ out.data = << <<65, 1>> >>)

C13_Witness ==
    /\ in = <<75, 4, 0>>
    /\ returned
    /\ status = "LIBDEFLATE_SUCCESS"
    /\ out.data = << <<97, 1>> >>

(***************************************************************************)
(* build_decode_table called on its own, with the arguments of each of     *)
(* build_precode_decode_table, build_litlen_decode_table and               *)
(* build_offset_decode_table, and a symbol looked up in the table built.   *)
(* call is [fn |-> "lens", code, lens] before the build,                   *)
(* [fn |-> "build_decode_table", code, lens, ok, decode_table, writes]     *)
(* after it and [fn |-> "lookup", code, lens, sym, window, entry,          *)
(* consumed, failed] after a lookup of the next symbol of a stream that    *)
(* starts with the bits window, which are the codeword of sym and a pad.   *)
(***************************************************************************)

\* the most symbols with a codeword below the comb of a code drawn by Init
MaxUsed == 8

Codes == {"precode", "litlen", "offset"}

code_num_syms(code) ==
    CASE code = "precode" -> DEFLATE_NUM_PRECODE_SYMS
      [] code = "litlen" -> DEFLATE_NUM_LITLEN_SYMS
      [] code = "offset" -> DEFLATE_NUM_OFFSET_SYMS

code_decode_results(code) ==
    CASE code = "precode" -> precode_decode_results
      [] code = "litlen" -> litlen_decode_results
      [] code = "offset" -> offset_decode_results

code_table_bits(code) ==
    CASE code = "precode" -> PRECODE_TABLEBITS
      [] code = "litlen" -> LITLEN_TABLEBITS
      [] code = "offset" -> OFFSET_TABLEBITS

code_max_codeword_len(code) ==
    CASE code = "precode" -> DEFLATE_MAX_PRE_CODEWORD_LEN
      [] code = "litlen" -> DEFLATE_MAX_LITLEN_CODEWORD_LEN
      [] code = "offset" -> DEFLATE_MAX_OFFSET_CODEWORD_LEN

code_enough(code) ==
    CASE code = "precode" -> PRECODE_ENOUGH
      [] code = "litlen" -> LITLEN_ENOUGH
      [] code = "offset" -> OFFSET_ENOUGH

\* The numbers of codewords of the lengths len .. max_codeword_len of the
\* complete codes that have remainder free nodes at depth len and at most
\* budget codewords.
RECURSIVE CompleteShapes(_, _, _, _)
CompleteShapes(len, max_codeword_len, remainder, budget) ==
    IF len > max_codeword_len THEN IF remainder = 0 THEN {<< >>} ELSE {}
    ELSE IF remainder > budget THEN {}
    ELSE UNION {{<<n>> \o rest :
                   rest \in CompleteShapes(len + 1, max_codeword_len,
                                           2 * (remainder - n), budget - n)} :
                n \in 0..remainder}

\* the codeword lengths of a shape, in increasing order
RECURSIVE ShapeLengths(_, _)
ShapeLengths(shape, len) ==
    IF len > Len(shape) THEN << >>
    ELSE [i \in 1..shape[len] |-> len] \o ShapeLengths(shape, len + 1)

\* A comb of depth a (one codeword of each length 1 .. a) with a complete
\* code of at most MaxUsed codewords below it: with a = 0 the code lies in
\* the main table, with a near table_bits it needs subtables.
CombDepths(code) == {0, code_table_bits(code) - 2, code_table_bits(code)}

\* A comb of depth a with every codeword of length max_codeword_len below
\* it, for each a that the alphabet has the symbols for: the codes with
\* the most and the largest subtables.
FullShapes(code) ==
    LET max_codeword_len == code_max_codeword_len(code)
    IN  {[len \in 1..max_codeword_len |->
            IF len <= a THEN 1
            ELSE IF len = max_codeword_len THEN 2 ^ (max_codeword_len - a)
            ELSE 0] :
         a \in {a \in 1..(max_codeword_len - 1) :
                  a + 2 ^ (max_codeword_len - a) <= code_num_syms(code)}}

CodeShapes(code) ==
    UNION {{[i \in 1..a |-> 1] \o rest :
              rest \in CompleteShapes(a + 1, code_max_codeword_len(code), 2, MaxUsed)} :
           a \in CombDepths(code)}
    \cup FullShapes(code)

\* what is done to a complete code before it is built: nothing, its longest
\* codeword taken away, a codeword of the longest length added, all but its
\* shortest codeword taken away, every codeword taken away
CodeKinds == {"complete", "less", "more", "first", "none"}

KindLengths(shape, kind) ==
    LET ls == ShapeLengths(shape, 1)
    IN  CASE kind = "complete" -> ls
          [] kind = "less" -> SubSeq(ls, 1, Len(ls) - 1)
          [] kind = "more" -> Append(ls, ls[Len(ls)])
          [] kind = "first" -> << ls[1] >>
          [] kind = "none" -> << >>

\* where the codewords lie in the alphabet: "low" gives the lengths ls to
\* the symbols 0, 1, ... in increasing order, "high" to the symbols
\* num_syms - 1, num_syms - 2, ..., "spread" to the symbols 0, 7, 14, ...
\* modulo num_syms (7 has no factor in common with 19, 288 or 32)
Orders == {"low", "high", "spread"}

ArrangeLens(ls, num_syms, order) ==
    Array(num_syms, LAMBDA sym :
       LET js == {j \in 1..Len(ls) :
                    CASE order = "low" -> sym = j - 1
                      [] order = "high" -> sym = num_syms - j
                      [] order = "spread" -> sym = ((j - 1) * 7) % num_syms}
       IN  IF js = {} THEN 0 ELSE ls[CHOOSE j \in js : TRUE])

\* the static codes (lines 1007-1016), as prepare_static hands them over
StaticLens(code) ==
    CASE code = "precode" -> {}
      [] code = "litlen" -> {SubSeq(static_lens, 1, DEFLATE_NUM_LITLEN_SYMS)}
      [] code = "offset" -> {SubSeq(static_lens, DEFLATE_NUM_LITLEN_SYMS + 1,
                                    DEFLATE_NUM_LITLEN_SYMS + DEFLATE_NUM_OFFSET_SYMS)}

CodeLens(code) ==
    {ArrangeLens(KindLengths(shape, kind), code_num_syms(code), order) :
        shape \in CodeShapes(code), kind \in CodeKinds, order \in Orders}
    \cup StaticLens(code)

\* the symbols of lens that have a codeword
UsedSyms(lens) == {sym \in 0..(Len(lens) - 1) : At(lens, sym) # 0}

\* RFC 1951, section 3.2.2: the canonical Huffman code of the lengths lens.
\* bl_count is the number of codewords of a length, next_code the first
\* codeword of a length, and the codewords of one length are consecutive
\* in the order of the symbols.
bl_count(lens, len) ==
    IF len = 0 THEN 0 ELSE Cardinality({sym \in UsedSyms(lens) : At(lens, sym) = len})

RECURSIVE next_code(_, _)
next_code(lens, len) ==
    IF len = 0 THEN 0
    ELSE 2 * (next_code(lens, len - 1) + bl_count(lens, len - 1))

canonical_codeword(lens, sym) ==
    next_code(lens, At(lens, sym))
    + Cardinality({s \in UsedSyms(lens) : s < sym /\ At(lens, s) = At(lens, sym)})

\* the n low bits of v in the opposite order
RECURSIVE bit_reverse(_, _)
bit_reverse(v, n) ==
    IF n = 0 THEN 0
    ELSE (v % 2) * (2 ^ (n - 1)) + bit_reverse(v \div 2, n - 1)

\* the codeword of sym as the stream carries it: first bit lowest
stream_codeword(lens, sym) == bit_reverse(canonical_codeword(lens, sym), At(lens, sym))

\* window, the next max_codeword_len bits of a stream, starts with the
\* codeword of sym
window_starts_with(lens, window, sym) ==
    At(lens, sym) # 0
    /\ window % (2 ^ At(lens, sym)) = stream_codeword(lens, sym)

\* The windows looked up: the codeword of a symbol followed by zeros
\* (pad 0) or by ones (pad 1), max_codeword_len bits in all.
Pads == {0, 1}

Window(lens, max_codeword_len, sym, pad) ==
    stream_codeword(lens, sym)
    + pad * (2 ^ (max_codeword_len - At(lens, sym)) - 1) * (2 ^ At(lens, sym))

\* a stream whose next 16 bits are those of window, after ensure_bits
window_stream(window) ==
    ensure_bits(<<window % 256, window \div 256>>, InputStream_new,
                DEFLATE_MAX_LITLEN_CODEWORD_LEN)

\* lines 935-937 for the precode (its table has no subtables), lines
\* 1320-1328 and 1364-1372 for the other codes
lookup(code, s, decode_table) ==
    IF code = "precode"
    THEN LET entry == At(decode_table, bits(s, DEFLATE_MAX_PRE_CODEWORD_LEN))
         IN  [s |-> remove_bits(bits_assert(s, DEFLATE_MAX_PRE_CODEWORD_LEN),
                                entry_length(entry)),
              entry |-> entry]
    ELSE decode_symbol(s, decode_table, code_table_bits(code))

TableInit ==
    /\ call \in UNION {{[fn |-> "lens", code |-> code, lens |-> lens] :
                          lens \in CodeLens(code)} : code \in Codes}
    /\ input = 1
    /\ out_nbytes_avail = 0
    /\ actual_out_nbytes_ret = NotSet
    /\ out = OutputBuffer_new
    /\ d = << >>
    /\ in_stream = InputStream_new
    /\ out_block = DeflateWindow_new
    /\ is_final_block = FALSE
    /\ last = no_symbol
    /\ pc = "call"
    /\ status = "running"

Build ==
    /\ call.fn = "lens"
    /\ LET r == build_decode_table(call.lens, code_num_syms(call.code),
                                   code_decode_results(call.code),
                                   code_table_bits(call.code),
                                   code_max_codeword_len(call.code),
                                   code_enough(call.code))
       IN  call' = [fn |-> "build_decode_table", code |-> call.code,
                    lens |-> call.lens, ok |-> r.ok,
                    decode_table |-> r.decode_table, writes |-> r.writes]
    /\ UNCHANGED <<input, out_nbytes_avail, actual_out_nbytes_ret, out, d,
                   in_stream, out_block, is_final_block, last, pc, status>>

Lookup ==
    /\ call.fn = "build_decode_table"
    /\ call.ok
    /\ \E sym \in UsedSyms(call.lens), pad \in Pads :
          LET window == Window(call.lens, code_max_codeword_len(call.code), sym, pad)
              s == window_stream(window)
              r == lookup(call.code, s, call.decode_table)
          IN  call' = [fn |-> "lookup", code |-> call.code, lens |-> call.lens,
                       sym |-> sym, window |-> window, entry |-> r.entry,
                       consumed |-> s.bitsleft - r.s.bitsleft,
                       failed |-> r.s.failed]
    /\ UNCHANGED <<input, out_nbytes_avail, actual_out_nbytes_ret, out, d,
                   in_stream, out_block, is_final_block, last, pc, status>>

TableNext ==
    \/ Build
    \/ Lookup

TableSpec == TableInit /\ [][TableNext]_vars

(***************************************************************************)
(* Properties of build_decode_table.                                       *)
(***************************************************************************)

\* the codespace the codewords of lens take, in units of 2^-max_codeword_len
RECURSIVE codespace_taken(_, _, _)
codespace_taken(lens, max_codeword_len, len) ==
    IF len > max_codeword_len THEN 0
    ELSE bl_count(lens, len) * (2 ^ (max_codeword_len - len))
         + codespace_taken(lens, max_codeword_len, len + 1)

\* the code of the call is complete
complete_code ==
    codespace_taken(call.lens, code_max_codeword_len(call.code), 1)
    = 2 ^ code_max_codeword_len(call.code)

\* stream_codeword of every symbol of lens (-1: no codeword)
stream_codewords(lens) ==
    Array(Len(lens), LAMBDA sym :
       IF At(lens, sym) = 0 THEN -1 ELSE stream_codeword(lens, sym))

\* entry, found after consumed bits were taken for a subtable pointer, is
\* what a stream that starts with window must decode to: the codeword of
\* some symbol starts the window, entry holds that symbol's decode result
\* and consumed plus entry's length is the length of that codeword
decodes_window(code, lens, codewords, window, entry, consumed) ==
    /\ entry # Unwritten
    /\ entry.sub = 0
    /\ \E sym \in 0..(Len(lens) - 1) :
          /\ At(lens, sym) # 0
          /\ window % (2 ^ At(lens, sym)) = At(codewords, sym)
          /\ entry_result(entry) = At(code_decode_results(code), sym)
          /\ consumed + entry_length(entry) = At(lens, sym)

\* every slot a lookup can reach holds what the window that reaches it
\* must decode to
table_decodes(code, lens, decode_table) ==
    LET table_bits == code_table_bits(code)
        codewords == stream_codewords(lens)
    IN  \A i \in 0..(2 ^ table_bits - 1) :
           LET entry == At(decode_table, i)
               start == (entry.v \div (2 ^ HUFFDEC_RESULT_SHIFT)) % 65536
           IN  IF entry.sub = 0
               THEN decodes_window(code, lens, codewords, i, entry, 0)
               ELSE \A j \in 0..(2 ^ entry_length(entry) - 1) :
                       decodes_window(code, lens, codewords, i + j * (2 ^ table_bits),
                                      At(decode_table, start + j), table_bits)

\* C14: for a complete code that build_decode_table accepts, every slot of
\* the main table, and every slot of a subtable a pointer of the main table
\* leads to, has been written and holds the decode result of the symbol
\* whose bit-reversed canonical codeword starts the windows that reach the
\* slot; and a lookup (main entry, then subtable entry) yields that
\* symbol's decode result and consumes exactly the bits of its codeword.
C14_TableLookup ==
    /\ (call.fn = "build_decode_table" /\ complete_code)
          => (call.ok /\ table_decodes(call.code, call.lens, call.decode_table))
    /\ (call.fn = "lookup" /\ complete_code)
          => /\ window_starts_with(call.lens, call.window, call.sym)
             /\ ~call.failed
             /\ call.entry.sub = 0
             /\ entry_result(call.entry)
                = At(code_decode_results(call.code), call.sym)
             /\ call.consumed = At(call.lens, call.sym)

\* a 15-bit codeword of a complete literal/length code has been looked up
\* through a subtable
C14_Witness ==
    /\ call.fn = "lookup"
    /\ call.code = "litlen"
    /\ complete_code
    /\ call.consumed = DEFLATE_MAX_LITLEN_CODEWORD_LEN
    /\ entry_result(call.entry) = At(litlen_decode_results, call.sym)

\* the main table holds nothing but the default entry of lines 670-672
defaults_only(code, decode_table) ==
    \A i \in 0..(2 ^ code_table_bits(code) - 1) :
       At(decode_table, i)
       = make_decode_table_entry(At(code_decode_results(code), 0), 1)

\* C15: build_decode_table returns false exactly when the lengths are
\* over-subscribed or form an incomplete code other than the two accepted
\* ones; it returns true for a complete code, for an empty code (with all
\* 2^table_bits main entries set to decode_results[0] at length 1) and for
\* a code whose only codeword has length 1.
C15_BuildResult ==
    call.fn = "build_decode_table" =>
       LET max_codeword_len == code_max_codeword_len(call.code)
           taken == codespace_taken(call.lens, max_codeword_len, 1)
           used == UsedSyms(call.lens)
           empty == used = {}
           single == Cardinality(used) = 1 /\ \A sym \in used : At(call.lens, sym) = 1
           over_subscribed == taken > 2 ^ max_codeword_len
           incomplete == taken < 2 ^ max_codeword_len
       IN  /\ call.ok <=> (taken = 2 ^ max_codeword_len \/ empty \/ single)
           /\ ~call.ok <=> (over_subscribed \/ (incomplete /\ ~empty /\ ~single))
           /\ empty => defaults_only(call.code, call.decode_table)

\* an empty offset code has been built: accepted, with the default entries
C15_Witness ==
    /\ call.fn = "build_decode_table"
    /\ call.code = "offset"
    /\ UsedSyms(call.lens) = {}
    /\ call.ok
    /\ At(call.decode_table, 2 ^ OFFSET_TABLEBITS - 1)
       = make_decode_table_entry(At(offset_decode_results, 0), 1)

\* the stores of subtable pointers among writes, in program order
pointer_writes(writes) == SelectSeq(writes, LAMBDA w : w.entry.sub = 1)

\* the subtable a pointer entry names: [start, nbits]
pointed_table(entry) ==
    [start |-> (entry.v \div (2 ^ HUFFDEC_RESULT_SHIFT)) % 65536,
     nbits |-> entry_length(entry)]

\* the table being filled when store k of writes is made: the subtable of
\* the last pointer stored before it, or the main table
table_filled(writes, k, table_bits) ==
    LET ps == {j \in 1..(k - 1) : writes[j].entry.sub = 1}
    IN  IF ps = {} THEN [start |-> 0, nbits |-> table_bits]
        ELSE pointed_table(writes[CHOOSE j \in ps : \A j2 \in ps : j2 <= j].entry)

\* C16: every index build_decode_table writes is below the table's storage
\* bound; the subtables lie one after the other, without overlap, after the
\* 2^table_bits main entries; a pointer's start plus 2^cur_table_bits does
\* not exceed the bound; the loop that sizes a subtable reads len_counts at
\* most at max_codeword_len (its last read is at table_bits +
\* cur_table_bits); and every store lands inside the table being filled (a
\* pointer inside the main table).
C16_WritesInBounds ==
    call.fn = "build_decode_table" =>
       LET table_bits == code_table_bits(call.code)
           enough == code_enough(call.code)
           writes == call.writes
           pointers == pointer_writes(writes)
       IN  /\ \A k \in 1..Len(writes) :
                /\ writes[k].first >= 0
                /\ LastWritten(writes[k]) < enough
                /\ IF writes[k].entry.sub = 1
                   THEN LastWritten(writes[k]) < 2 ^ table_bits
                   ELSE LET table == table_filled(writes, k, table_bits)
                        IN  /\ writes[k].first >= table.start
                            /\ LastWritten(writes[k]) < table.start + 2 ^ table.nbits
           /\ \A p \in 1..Len(pointers) :
                LET table == pointed_table(pointers[p].entry)
                IN  /\ table.start
                       = IF p = 1 THEN 2 ^ table_bits
                         ELSE pointed_table(pointers[p - 1].entry).start
                              + 2 ^ pointed_table(pointers[p - 1].entry).nbits
                    /\ table.start + 2 ^ table.nbits <= enough
                    /\ table_bits + table.nbits <= code_max_codeword_len(call.code)

\* a literal/length table with at least two subtables has been built
C16_Witness ==
    /\ call.fn = "build_decode_table"
    /\ call.code = "litlen"
    /\ call.ok
    /\ Len(pointer_writes(call.writes)) >= 2
    /\ LastWritten(call.writes[Len(call.writes)]) >= 2 ^ LITLEN_TABLEBITS

(***************************************************************************)
(* DeflateWindow::copy_match, store by store.  The window holds size bytes *)
(* before the call (next = buffer + size); m = [base, bytes, read_low,     *)
(* write_low, write_high] is the memory of the call: base is the old next, *)
(* bytes the bytes stored at base, base + 1, ..., and read_low, write_low  *)
(* and write_high the lowest index read, the lowest written and the        *)
(* highest written (indices are offsets from buffer).                      *)
(***************************************************************************)

\* the byte at index p of a window filled before the call: no two bytes at
\* a distance below 255 are equal
window_byte(p) == (p + (p \div 256)) % 256

\* what a byte of the buffer holds that was never stored
Stale == 256

memory_new(size) ==
    [base |-> size, bytes |-> << >>, read_low |-> size, write_low |-> buffer_end,
     write_high |-> -1]

load_byte(m, p) ==
    IF p < m.base THEN window_byte(p)
    ELSE IF p - m.base < Len(m.bytes) THEN m.bytes[p - m.base + 1]
    ELSE Stale

\* the n bytes at src, and the memory after they are read
load_bytes(m, src, n) == [j \in 1..n |-> load_byte(m, src + j - 1)]

memory_read(m, src) == [m EXCEPT !.read_low = Min(@, src)]

\* the memory after the bytes vs are stored at dst (dst >= base)
store_bytes(m, dst, vs) ==
    LET end == Max(m.base + Len(m.bytes), dst + Len(vs))
    IN  [m EXCEPT
           !.bytes = IF dst = m.base + Len(m.bytes) THEN m.bytes \o vs
                     ELSE Array(end - m.base, LAMBDA i :
                             IF m.base + i >= dst /\ m.base + i < dst + Len(vs)
                             THEN vs[m.base + i - dst + 1]
                             ELSE load_byte(m, m.base + i)),
           !.write_low = Min(@, dst),
           !.write_high = Max(@, dst + Len(vs) - 1)]

\* repeat_byte without its shifts
repeat_byte_low(b) == [j \in 1..WORDBYTES |-> IF j = 1 THEN b ELSE 0]

\* lines 871-881
repeat_byte(b) == [j \in 1..WORDBYTES |-> b]

\* lines 884-888: the word is loaded, then stored
copy_word_unaligned(m, src, dst) ==
    store_bytes(memory_read(m, src), dst, load_bytes(m, src, WORDBYTES))

\* *dst++ = *src++
copy_byte(m, src, dst) ==
    store_bytes(memory_read(m, src), dst, load_bytes(m, src, 1))

\* lines 1154-1163: a word, then words while dst < dst_end
RECURSIVE copy_words(_, _, _, _)
copy_words(m, src, dst, dst_end) ==
    LET m1 == copy_word_unaligned(m, src, dst)
    IN  IF dst + WORDBYTES < dst_end
        THEN copy_words(m1, src + WORDBYTES, dst + WORDBYTES, dst_end)
        ELSE m1

\* lines 1166-1170
RECURSIVE store_words(_, _, _, _)
store_words(m, v, dst, dst_end) ==
    LET m1 == store_bytes(m, dst, v)
    IN  IF dst + WORDBYTES < dst_end
        THEN store_words(m1, v, dst + WORDBYTES, dst_end)
        ELSE m1

\* do { *dst++ = *src++; } while (dst < dst_end); x = [m, src, dst, done]
copy_bytes_pass(x, dst_end) ==
    [m |-> copy_byte(x.m, x.src, x.dst), src |-> x.src + 1, dst |-> x.dst + 1,
     done |-> ~(x.dst + 1 < dst_end)]

copy_bytes_while(m, src, dst, dst_end) ==
    Loop(LAMBDA x : copy_bytes_pass(x, dst_end),
         [m |-> m, src |-> src, dst |-> dst, done |-> FALSE],
         Max(1, dst_end - dst)).m

\* lines 1172-1176 and 1179-1183: two bytes, then bytes while dst < dst_end
copy_bytes(m, src, dst, dst_end) ==
    copy_bytes_while(copy_byte(copy_byte(m, src, dst), src + 1, dst + 1),
                     src + 2, dst + 2, dst_end)

\* the test of line 1152 on every copy
word_copy_always(dst_end) == TRUE

\* line 1152
word_copy_fits(dst_end) == buffer_end - dst_end >= WORDBYTES - 1

\* lines 1126-1187 on a window of size bytes: [m, next, failed], failed
\* when an assert fails
copy_match_memory(size, length, offset) ==
    LET m == memory_new(size)
        next == size
        src == next - offset
        dst == next
        dst_end == dst + length
    IN  IF ~(offset <= size) \/ ~(buffer_end - next >= length) \/ ~(offset > 0)
        THEN [m |-> m, next |-> next, failed |-> TRUE]
        ELSE [m |-> IF length <= 3 * WORDBYTES /\ offset >= WORDBYTES
                       /\ length + 3 * WORDBYTES <= buffer_end - next
                    THEN copy_word_unaligned(
                           copy_word_unaligned(
                             copy_word_unaligned(m, next - offset, next),
                             next - offset + WORDBYTES, next + WORDBYTES),
                           next - offset + 2 * WORDBYTES, next + 2 * WORDBYTES)
                    ELSE IF word_copy_fits(dst_end)
                    THEN IF offset >= WORDBYTES THEN copy_words(m, src, dst, dst_end)
                         ELSE IF offset = 1
                         THEN store_words(memory_read(m, dst - 1),
                                          repeat_byte(load_byte(m, dst - 1)),
                                          dst, dst_end)
                         ELSE copy_bytes(m, src, dst, dst_end)
                    ELSE copy_bytes(m, src, dst, dst_end),
              next |-> next + length,
              failed |-> FALSE]

(***************************************************************************)
(* copy_match and flush called on their own.  call is                      *)
(* [fn |-> "copy_match_call", size, length, offset] before copy_match and  *)
(* [fn |-> "copy_match", size, length, offset, next, bytes, read_low,      *)
(* write_low, write_high, status] after it; it is                          *)
(* [fn |-> "flush_call", w, o, target_end, need] before flush, called by   *)
(* the decode loop for a symbol of need bytes, and                         *)
(* [fn |-> "flush", before, out_before, target_end, need, w, o] after it.  *)
(***************************************************************************)
MatchLengths == {1, 2, 3, 4, 7, 8, 9, 16, 23, 24, 25, 32, 100, 257, 258}

MatchOffsets == {1, 2, 3, 4, 7, 8, 9, 15, 16, 17, 24, 100, 258, 259, 32768}

\* available() - length before a match is copied
TailSlacks == (0..8) \cup {22, 23, 24, 25, 32768}

\* size() of a window that is far from full
StartSizes == {1, 2, 7, 8, 9, 16, 258, 32768}

CopyCalls ==
    {[fn |-> "copy_match_call", size |-> size, length |-> length, offset |-> offset] :
        size \in StartSizes, length \in MatchLengths,
        offset \in MatchOffsets \cup StartSizes}
    \cup
    {[fn |-> "copy_match_call", size |-> buffer_end - length - slack,
      length |-> length, offset |-> offset] :
        slack \in TailSlacks, length \in MatchLengths, offset \in MatchOffsets}

\* size bytes of a window as a run list: a new byte value every 30000 bytes
WindowRuns(size) ==
    LET chunk == 30000
        n == size \div chunk
    IN  [k \in 1..n |-> <<k % 251, chunk>>]
        \o IF size % chunk = 0 THEN << >> ELSE << <<(n + 1) % 251, size % chunk>> >>

FlushSizes ==
    {buffer_end - a : a \in {0, 1, 2, 257}} \cup {1, 32768, 32769, 65537, 524288}

\* where the current block begins in a window of size bytes
BlockStarts(size) ==
    {cb \in {0, size, size - 1, size - 32767, size - 32768, size - 32769,
             (size \div 2) - 1, size \div 2, (size \div 2) + 1} : cb >= 0}

\* the bytes flush moves to the caller's buffer (lines 1205-1207)
evict_size_of(size, current_blk) ==
    Max(0, size - Max(2 ^ FLUSH_KEEP_BITS, size - current_blk))

\* target_end - target, less the bytes the flush is to evict
RoomSlacks == {-1, 0, 1, 2 ^ WINDOW_BITS}

FlushCalls ==
    {[fn |-> "flush_call",
      w |-> [data |-> WindowRuns(sc[1]), next |-> sc[1], current_blk |-> sc[2],
             first_ref |-> 0, first_blk |-> 0,
             blk_count |-> IF sc[2] = 0 THEN 0 ELSE 1,
             target |-> target, failed |-> FALSE],
      o |-> [data |-> IF target = 0 THEN << >> ELSE << <<252, target>> >>,
             beyond |-> 0],
      target_end |-> Max(target, target + evict_size_of(sc[1], sc[2]) + slack),
      need |-> need] :
        sc \in UNION {{<<size, cb>> : cb \in BlockStarts(size)} : size \in FlushSizes},
        target \in {0, 7}, slack \in RoomSlacks, need \in {1, 3, 258}}

WindowInit ==
    /\ call \in CopyCalls \cup FlushCalls
    /\ input = 1
    /\ out_nbytes_avail = 0
    /\ actual_out_nbytes_ret = NotSet
    /\ out = OutputBuffer_new
    /\ d = << >>
    /\ in_stream = InputStream_new
    /\ out_block = DeflateWindow_new
    /\ is_final_block = FALSE
    /\ last = no_symbol
    /\ pc = "call"
    /\ status = "running"

\* A store at or after buffer_end, or a load before buffer, is undefined:
\* the call goes on to return, or the process is killed.
CopyMatch ==
    /\ call.fn = "copy_match_call"
    /\ LET r == copy_match_memory(call.size, call.length, call.offset)
       IN  \E st \in IF r.failed THEN {"abort"}
                     ELSE IF r.m.write_high >= buffer_end \/ r.m.read_low < 0
                     THEN {"returned", "crash"}
                     ELSE {"returned"} :
              call' = [fn |-> "copy_match", size |-> call.size,
                       length |-> call.length, offset |-> call.offset,
                       next |-> r.next, bytes |-> r.m.bytes,
                       read_low |-> r.m.read_low, write_low |-> r.m.write_low,
                       write_high |-> r.m.write_high, status |-> st]
    /\ UNCHANGED <<input, out_nbytes_avail, actual_out_nbytes_ret, out, d,
                   in_stream, out_block, is_final_block, last, pc, status>>

Flush ==
    /\ call.fn = "flush_call"
    /\ LET fl == flush(call.w, call.o, call.target_end)
       IN  call' = [fn |-> "flush", before |-> call.w, out_before |-> call.o,
                    target_end |-> call.target_end, need |-> call.need,
                    w |-> fl.w, o |-> fl.o]
    /\ UNCHANGED <<input, out_nbytes_avail, actual_out_nbytes_ret, out, d,
                   in_stream, out_block, is_final_block, last, pc, status>>

WindowNext ==
    \/ CopyMatch
    \/ Flush

WindowSpec == WindowInit /\ [][WindowNext]_vars

(***************************************************************************)
(* Properties of DeflateWindow::copy_match.                                *)
(***************************************************************************)

\* the precondition of copy_match as the specification states it
copy_precondition ==
    /\ call.offset >= 1
    /\ call.offset <= call.size
    /\ call.length >= 1
    /\ call.length <= 258
    /\ call.length <= buffer_end - call.size

\* the window has room for the three bytes every byte-wise copy stores
room_for_first_copies == Max(call.length, 3) <= buffer_end - call.size

\* byte p of the buffer after the call
byte_after(p) ==
    IF p < call.size THEN window_byte(p)
    ELSE IF p - call.size < Len(call.bytes) THEN call.bytes[p - call.size + 1]
    ELSE Stale

\* the call has returned, the cursor has advanced by length and the length
\* bytes at the old cursor are those of a byte-by-byte forward copy
forward_copied ==
    /\ call.status = "returned"
    /\ call.next = call.size + call.length
    /\ \A p \in call.size..(call.size + call.length - 1) :
          /\ byte_after(p) \in 0..255
          /\ byte_after(p) = byte_after(p - call.offset)
    /\ (call.length = 258 /\ call.offset = 1)
          => \A p \in call.size..(call.size + 257) :
                byte_after(p) = window_byte(call.size - 1)

\* C17 as claimed: copy_match is a byte-by-byte forward copy for every
\* offset in [1, size] and every length in [1, 258] with length <=
\* available, whatever the tail slack and the path taken.
C17_ForwardCopyAnyLength ==
    (call.fn = "copy_match" /\ copy_precondition) => forward_copied

\* C17: copy_match is a byte-by-byte forward copy, advancing the cursor by
\* length, for every offset in [1, size] and every length in [1, 258] with
\* max(length, 3) <= available, whatever the tail slack and the path
\* taken; length 258 at offset 1 gives 258 copies of the previous byte.
C17_ForwardCopy ==
    (call.fn = "copy_match" /\ copy_precondition /\ room_for_first_copies)
       => forward_copied

\* 258 bytes have been copied at offset 1 with no slack left behind them
C17_Witness ==
    /\ call.fn = "copy_match"
    /\ call.length = 258
    /\ call.offset = 1
    /\ call.next = buffer_end
    /\ call.status = "returned"
    /\ byte_after(buffer_end - 1) = window_byte(call.size - 1)

\* nothing is stored below the old cursor or at or after buffer_end, and
\* nothing is loaded from before the buffer
no_stray_access ==
    /\ call.write_low >= call.size
    /\ call.write_high < buffer_end
    /\ call.read_low >= 0

\* C18 as claimed: every call with offset in [1, size], length in [1, 258]
\* and length <= available modifies no byte below the old cursor, reads no
\* byte before the buffer and writes no byte at or after buffer_end.
C18_NoStrayAccessAnyLength ==
    (call.fn = "copy_match" /\ copy_precondition) => no_stray_access

\* C18: every call with offset in [1, size], length in [1, 258] and
\* max(length, 3) <= available modifies no byte below the old cursor,
\* reads no byte before the buffer and writes no byte at or after
\* buffer_end, the bytes a word copy stores past the match included.
C18_NoStrayAccess ==
    (call.fn = "copy_match" /\ copy_precondition /\ room_for_first_copies)
       => no_stray_access

\* a word copy has stored past the end of the match, up to the last byte
\* of the buffer
C18_Witness ==
    /\ call.fn = "copy_match"
    /\ call.length >= 3
    /\ call.offset >= WORDBYTES
    /\ call.write_high = buffer_end - 1
    /\ call.write_high >= call.size + call.length
    /\ call.status = "returned"

(***************************************************************************)
(* Properties of DeflateWindow::flush.                                     *)
(***************************************************************************)

\* flush has returned: none of its asserts has failed
flush_returned == call.fn = "flush" /\ ~call.w.failed

\* C19: after a flush the window holds at least min(size before, 32 KiB)
\* bytes, which are the most recently written ones, in their order, ending
\* at the cursor; the bytes that left the window are its oldest prefix,
\* and they are the bytes stored in the caller's buffer.
C19_FlushKeepsRecent ==
    flush_returned =>
       LET before == call.before
           after == call.w
           evicted == before.next - after.next
       IN  /\ after.next >= Min(before.next, 2 ^ 15)
           /\ evicted >= 0
           /\ RunsLen(after.data) = after.next
           /\ after.data = RunsDrop(before.data, evicted)
           /\ call.o.data = RunsCat(call.out_before.data,
                                    RunsTake(before.data, evicted))
           /\ call.o.beyond = 0
           /\ after.target = before.target + evicted

\* a flush of a full window has evicted all but the last 32 KiB
C19_Witness ==
    /\ flush_returned
    /\ call.before.next = buffer_end
    /\ call.w.next = 2 ^ 15
    /\ call.w.target = call.before.target + (buffer_end - 2 ^ 15)
    /\ RunsLen(call.o.data) = call.w.target

\* C20: when the decode loop calls flush because the window cannot take the
\* next symbol (need is 1 for a literal, the length for a match) and the
\* caller's buffer has room for the bytes to evict, flush returns without a
\* failed assert and the window then has room for the symbol, whatever the
\* size of the current block.
C20_FlushMakesRoom ==
    (/\ call.fn = "flush"
     /\ call.need > available(call.before)
     /\ call.target_end - call.before.target
        >= evict_size_of(call.before.next, call.before.current_blk))
       => (~call.w.failed /\ available(call.w) >= call.need)

(***************************************************************************)
(* InputStream on its own: a stream over one input, and its member         *)
(* functions called in any order.  in_stream is the stream; call is        *)
(* [fn |-> "InputStream", in, op, n, value, first_bit, consumed_end,       *)
(* aligned, calls]: the input, the last member function called with its    *)
(* argument and the value it returned, and what the calls so far have      *)
(* done to the input: first_bit is the place in the input (in bits, the    *)
(* made-up zero bits beyond the end counted) of the next bit to remove,    *)
(* consumed_end the place after the last bit removed, aligned is whether   *)
(* align_input has been called, calls the number of calls made.            *)
(***************************************************************************)

\* the most member functions called on one stream
MaxCalls == 7

\* the inputs: none, fewer than a word, more than one word, more than two
StreamLens == {0, 3, 12, 17}

stream_byte(k) == (167 * (k + 1) + (k \div 3)) % 256

stream_input(len) == Array(len, LAMBDA k : stream_byte(k))

\* ensure_bits<n> is instantiated with 17, 57, 14, 15 and 57 (lines 1289,
\* 915, 928, 1318, 1338); 1 is the least n
EnsureCounts == {1, DEFLATE_MAX_PRE_CODEWORD_LEN + 7, DEFLATE_MAX_LITLEN_CODEWORD_LEN,
                 1 + 2 + 5 + 5 + 4, bitbuf_max_ensure}

\* bits, remove_bits and pop_bits are called with 0 (no extra bits) to 15
BitCounts == {0, 1, 3, 7, DEFLATE_MAX_LITLEN_CODEWORD_LEN}

BitInit ==
    /\ call \in {[fn |-> "InputStream", in |-> stream_input(len),
                  op |-> "InputStream", n |-> 0, value |-> 0, first_bit |-> 0,
                  consumed_end |-> 0, aligned |-> FALSE, calls |-> 0] :
                    len \in StreamLens}
    /\ in_stream = InputStream_new
    /\ input = 1
    /\ out_nbytes_avail = 0
    /\ actual_out_nbytes_ret = NotSet
    /\ out = OutputBuffer_new
    /\ d = << >>
    /\ out_block = DeflateWindow_new
    /\ is_final_block = FALSE
    /\ last = no_symbol
    /\ pc = "call"
    /\ status = "running"

\* one more member function can be called: the stream is there (no assert
\* has failed) and the bound is not reached
callable ==
    /\ call.fn = "InputStream"
    /\ ~in_stream.failed
    /\ call.calls < MaxCalls

EnsureBits ==
    /\ callable
    /\ \E n \in EnsureCounts :
          /\ in_stream' = ensure_bits(call.in, in_stream, n)
          /\ call' = [call EXCEPT !.op = "ensure_bits", !.n = n, !.value = 0,
                                  !.calls = call.calls + 1]
    /\ UNCHANGED <<input, out_nbytes_avail, actual_out_nbytes_ret, out, d,
                   out_block, is_final_block, last, pc, status>>

Bits ==
    /\ callable
    /\ \E n \in BitCounts :
          /\ in_stream' = bits_assert(in_stream, n)
          /\ call' = [call EXCEPT !.op = "bits", !.n = n,
                                  !.value = bits(in_stream, n),
                                  !.calls = call.calls + 1]
    /\ UNCHANGED <<input, out_nbytes_avail, actual_out_nbytes_ret, out, d,
                   out_block, is_final_block, last, pc, status>>

\* the bits removed are those of the input from first_bit on
removed(s, n) ==
    IF s.failed THEN call
    ELSE [call EXCEPT !.first_bit = call.first_bit + n,
                      !.consumed_end = IF n > 0
                                       THEN Max(call.consumed_end, call.first_bit + n)
                                       ELSE call.consumed_end]

RemoveBits ==
    /\ callable
    /\ \E n \in BitCounts :
          /\ in_stream' = remove_bits(in_stream, n)
          /\ call' = [removed(remove_bits(in_stream, n), n) EXCEPT
                         !.op = "remove_bits", !.n = n, !.value = 0,
                         !.calls = call.calls + 1]
    /\ UNCHANGED <<input, out_nbytes_avail, actual_out_nbytes_ret, out, d,
                   out_block, is_final_block, last, pc, status>>

PopBits ==
    /\ callable
    /\ \E n \in BitCounts :
          /\ in_stream' = pop_bits(in_stream, n)
          /\ call' = [removed(pop_bits(in_stream, n), n) EXCEPT
                         !.op = "pop_bits", !.n = n,
                         !.value = bits(in_stream, n),
                         !.calls = call.calls + 1]
    /\ UNCHANGED <<input, out_nbytes_avail, actual_out_nbytes_ret, out, d,
                   out_block, is_final_block, last, pc, status>>

\* after align_input the next bit read is the first of the byte at in_next
AlignInput ==
    /\ callable
    /\ in_stream' = align_input(in_stream)
    /\ call' = [call EXCEPT !.op = "align_input", !.n = 0, !.value = 0,
                            !.first_bit = 8 * align_input(in_stream).in_next,
                            !.aligned = TRUE,
                            !.calls = call.calls + 1]
    /\ UNCHANGED <<input, out_nbytes_avail, actual_out_nbytes_ret, out, d,
                   out_block, is_final_block, last, pc, status>>

BitNext ==
    \/ EnsureBits
    \/ Bits
    \/ RemoveBits
    \/ PopBits
    \/ AlignInput

BitSpec == BitInit /\ [][BitNext]_vars


(***************************************************************************)
(* Properties of InputStream.                                              *)
(***************************************************************************)

\* bit p of the input read low-bit-first, byte after byte, and followed by
\* zero bits
stream_bit(bytes, p) ==
    IF p < 8 * Len(bytes) THEN (bytes[(p \div 8) + 1] \div (2 ^ (p % 8))) % 2 ELSE 0

\* the n bits of the input from bit p on, as a number
RECURSIVE stream_field(_, _, _)
stream_field(bytes, p, n) ==
    IF n = 0 THEN 0
    ELSE stream_bit(bytes, p) + 2 * stream_field(bytes, p + 1, n - 1)

high_bits == in_stream.bitsleft..(bitbuf_length - 1)

\* every input byte a bit has been removed from is before in_next
consumed_left ==
    8 * in_stream.in_next >= Min(call.consumed_end, 8 * Len(call.in))

\* C21 as stated: in every state of a stream, the bitbuf_length - bitsleft
\* high bits of bitbuf are zero, and every input byte from which bits have
\* been consumed is before in_next.
C21_HighBitsZero ==
    call.fn = "InputStream"
       => /\ \A j \in high_bits : At(in_stream.bitbuf, j) = 0
          /\ consumed_left

\* C21: in every state of a stream, each of the bitbuf_length - bitsleft
\* high bits of bitbuf is zero or, in the fewer than 8 places next to the
\* valid bits, the bit of the byte at in_next that the next refill stores
\* there; and every input byte from which bits have been consumed is before
\* in_next.
C21_HighBitsNext ==
    call.fn = "InputStream"
       => /\ \A j \in high_bits :
                \/ At(in_stream.bitbuf, j) = 0
                \/ /\ j - in_stream.bitsleft < 8
                   /\ in_stream.in_next < Len(call.in)
                   /\ At(in_stream.bitbuf, j)
                      = stream_bit(call.in, 8 * in_stream.in_next
                                            + (j - in_stream.bitsleft))
          /\ consumed_left

\* bits have been removed, a wordwise refill has left bits of the next byte
\* above the valid ones, and more bits have been removed
C21_Witness ==
    /\ call.fn = "InputStream"
    /\ call.op \in {"remove_bits", "pop_bits"}
    /\ call.n > 0
    /\ \E j \in high_bits : At(in_stream.bitbuf, j) = 1

\* C22: after ensure_bits<n>, n <= bitbuf_max_ensure, the stream holds at
\* least n bits, its one refill done; bitsleft is within
\* [0, bitbuf_length] and in_next within [in, in_end] in every state, the
\* end of the input included.
C22_EnsureBits ==
    call.fn = "InputStream"
       => /\ call.op = "ensure_bits" => in_stream.bitsleft >= call.n
          /\ in_stream.bitsleft \in 0..bitbuf_length
          /\ in_stream.in_next \in 0..Len(call.in)

\* ensure_bits<bitbuf_max_ensure> has run into the end of the input and
\* made up bits
C22_Witness ==
    /\ call.fn = "InputStream"
    /\ call.op = "ensure_bits"
    /\ call.n = bitbuf_max_ensure
    /\ Len(call.in) > 0
    /\ in_stream.in_next = Len(call.in)
    /\ in_stream.overrun_count > 0
    /\ call.consumed_end > 0

\* C23: after align_input, whatever was called before, bitbuf and bitsleft
\* are zero and in_next is at the first input byte none of whose bits have
\* been consumed, or at in_end when the bits consumed reach the end of the
\* input.
C23_AlignInput ==
    (call.fn = "InputStream" /\ call.op = "align_input")
       => /\ in_stream.bitbuf = ZeroWord
          /\ in_stream.bitsleft = 0
          /\ in_stream.in_next
             = Min((call.consumed_end + 7) \div 8, Len(call.in))

\* C24: when only ensure_bits, bits, remove_bits and pop_bits have been
\* called, each in its precondition, the bits pop_bits(n) returns are the
\* next n bits of the input read low-bit-first, zero bits beyond its end:
\* the fields popped, one after the other, are the input.
C24_PoppedBits ==
    (/\ call.fn = "InputStream"
     /\ call.op = "pop_bits"
     /\ ~call.aligned
     /\ ~in_stream.failed)
       => call.value = stream_field(call.in, call.first_bit - call.n, call.n)

\* a field is popped that a wordwise and then a bytewise refill have put
\* together
C24_Witness ==
    /\ call.fn = "InputStream"
    /\ call.op = "pop_bits"
    /\ ~call.aligned
    /\ ~in_stream.failed
    /\ call.n = DEFLATE_MAX_LITLEN_CODEWORD_LEN
    /\ call.value > 0
    /\ call.first_bit > bitbuf_length
    /\ in_stream.in_next = Len(call.in)
    /\ in_stream.overrun_count = 0


(***************************************************************************)
(* Properties of the block decoding of do_block and prepare_dynamic, and   *)
(* of the loop of libdeflate_deflate_decompress.                           *)
(***************************************************************************)

\* the block read in this step is an uncompressed one: do_uncompressed
\* makes asserts of its own on the stream (lines 1272-1278)
uncompressed_step ==
    pc = "do_block" /\ block_header.btype = DEFLATE_BLOCKTYPE_UNCOMPRESSED

\* C25: with the 64-bit bit buffer, no assert of bits() or remove_bits()
\* fails while blocks are decoded, whatever the input: not in the block
\* header, and in no step that prepares a dynamic block (its header, the
\* precode lengths and the expansion of the lengths) or decodes a symbol
\* (litlen codeword with subtable, extra length bits, offset codeword with
\* subtable, extra offset bits).
C25_BitsAvailable ==
    [][/\ pc = "do_block" => ~block_header.s.failed
       /\ ~uncompressed_step => ~in_stream'.failed]_vars

\* a match has been decoded whose length symbol has a codeword of 15 bits
\* and 5 extra bits, and whose offset symbol has a codeword of 15 bits and
\* 14 extra bits
C25_Witness ==
    /\ call = whole_call
    /\ Inputs[input] = in_subtables_far
    /\ last.op = "match"
    /\ last.length = 258
    /\ last.offset = 49152
    /\ ~in_stream.failed


\* bits of the input consumed when the stream is s (consumed_bits is that
\* of in_stream)
consumed_by(s) == 8 * (s.in_next + s.overrun_count) - s.bitsleft

\* this step decodes a match and copies it
match_step == pc = "decode" /\ pc' = "decode" /\ last'.op = "match"

\* bytes that flush has moved out of the window in this step
evicted_by_step == window_size(out_block) - last'.size

\* C26: the blocks are read one after the other, each header from the bits
\* that follow the block before, whose BFINAL bit decides whether it is the
\* last: no block is read once a block with BFINAL = 1 has been read;
\* full_flush is called after that block has ended, never before, and once
\* (the call then ends, and no call returns a result without it); and a
\* match of a later block that reaches back into an earlier block copies
\* the bytes the earlier block has left in the window.
C26_BlocksInOrder ==
    [][/\ pc = "do_block"
          => /\ ~is_final_block
             /\ consumed_by(block_header.s) = consumed_bits + 3
             /\ is_final_block' = (stream_bit(in, consumed_bits) = 1)
       /\ pc' = "full_flush" => (pc \in {"do_block", "decode"} /\ is_final_block')
       /\ pc = "full_flush" => pc' = "done"
       /\ (pc' = "done" /\ status' \notin {"abort", "crash"}) => pc = "full_flush"
       /\ (pc' = "do_block" \/ pc = "decode") => is_final_block' = is_final_block
       /\ (match_step /\ last'.size - last'.offset < out_block'.current_blk)
          => \A k \in 0..(last'.length - 1) :
                RunsAt(out_block'.data, last'.size + k)
                = IF k < last'.offset
                  THEN RunsAt(out_block.data,
                              evicted_by_step + last'.size + k - last'.offset)
                  ELSE RunsAt(out_block'.data, last'.size + k - last'.offset)]_vars

\* the call has returned after two blocks, the second of which has copied
\* bytes of the first
C26_Witness ==
    /\ call = whole_call
    /\ Inputs[input] = in_two_blocks_match
    /\ status = "LIBDEFLATE_SUCCESS"
    /\ out_block.blk_count = 2
    /\ out_block.data = in_two_blocks_match.plain
    /\ consumed_bits = 8 * Len(in)


\* ---------------------------------------------------------------------
\* The block headers on their own: prepare_dynamic and prepare_static, one
\* step per loop or call, over the storage the arrays of the union share.
\* The state is in call; the header's fields are drawn from small sets and
\* handed to the steps as the bits of a stream.
\* ---------------------------------------------------------------------

\* passes of the expansion loop per block that are not a run of 138 zeros
MaxShort == 2

\* lines 133-146: the byte offsets of the arrays within the union u, and its
\* size.  lens is followed by three bytes of padding.
precode_lens_offset == 0
lens_offset == 0
precode_decode_table_offset == ((lens_offset + NUM_LENS + 3) \div 4) * 4
litlen_decode_table_offset == 0
union_size ==
    Max(4 * LITLEN_ENOUGH, precode_decode_table_offset + 4 * PRECODE_ENOUGH)

\* the bytes of the union from lo up to hi after a store through `array'
store_through(owner, lo, hi, array) ==
    IF hi <= lo THEN owner
    ELSE RunsCat(RunsCat(RunsTake(owner, lo), << <<array, hi - lo>> >>),
                 RunsDrop(owner, hi))

\* the bytes from lo up to hi were last stored through `array'
bytes_of(owner, lo, hi, array) ==
    \A b \in lo..(hi - 1) : RunsAt(owner, b) = array

\* the maximal ranges <<first, last>> of slots that a build stored to
written_ranges(decode_table) ==
    LET W == {k \in 0..(Len(decode_table) - 1) : At(decode_table, k) # Unwritten}
        firsts == {k \in W : k - 1 \notin W}
        lasts == {k \in W : k + 1 \notin W}
    IN  {<<a, CHOOSE b \in lasts : b >= a /\ \A c \in lasts : c >= a => b <= c>> :
            a \in firsts}

RECURSIVE store_ranges(_, _, _, _)
store_ranges(owner, base, ranges, array) ==
    IF ranges = {} THEN owner
    ELSE LET r == CHOOSE r \in ranges : TRUE
         IN  store_ranges(store_through(owner, base + 4 * r[1],
                                      base + 4 * (r[2] + 1), array),
                          base, ranges \ {r}, array)

\* the 3-bit fields of the explicit precode lengths, in the order of
\* deflate_precode_lens_permutation, that the headers are drawn from
PrecodeFields ==
    { <<3, 3, 2, 2, 0, 0, 0, 0, 0, 0, 0, 0, 0, 0, 0, 0, 0, 3, 3>>,
      <<0, 0, 1, 0>>,
      <<1, 1, 1, 0, 0>> }

SymCounts == { <<257, 1>>, <<288, 32>> }

\* the repeat counts' extra bits that the passes are drawn from
ExtraBits(presym) ==
    IF presym < 16 THEN {0}
    ELSE IF presym = 16 THEN {0, 3}
    ELSE IF presym = 17 THEN {0, 7}
    ELSE {32, 127}

\* bit p of the stream that holds the fields, 3 bits each, low bit first
field_bit(fields, p) ==
    IF p < 3 * Len(fields) THEN (fields[(p \div 3) + 1] \div (2 ^ (p % 3))) % 2
    ELSE 0

fields_input(fields) ==
    [j \in 1..8 |->
        field_bit(fields, 8 * (j - 1)) + 2 * field_bit(fields, 8 * (j - 1) + 1)
        + 4 * field_bit(fields, 8 * (j - 1) + 2) + 8 * field_bit(fields, 8 * (j - 1) + 3)
        + 16 * field_bit(fields, 8 * (j - 1) + 4) + 32 * field_bit(fields, 8 * (j - 1) + 5)
        + 64 * field_bit(fields, 8 * (j - 1) + 6) + 128 * field_bit(fields, 8 * (j - 1) + 7)]
    \o << >>

\* the precode symbols that a table decodes
decoded_presyms(precode_decode_table) ==
    {entry_result(At(precode_decode_table, k)) : k \in 0..(PRECODE_ENOUGH - 1)}

\* eight bytes of input that start with a codeword of presym and go on with
\* the extra bits
presym_input(precode_decode_table, presym, extra) ==
    LET k == CHOOSE k \in 0..(PRECODE_ENOUGH - 1) :
                /\ entry_result(At(precode_decode_table, k)) = presym
                /\ k < 2 ^ entry_length(At(precode_decode_table, k))
        w == k + extra * (2 ^ entry_length(At(precode_decode_table, k)))
    IN  <<w % 256, w \div 256, 0, 0, 0, 0, 0, 0>>

\* the highest index of lens that a pass from x to y stored to, -1 if none
stored_up_to(x, y, presym) ==
    IF y.failed THEN -1
    ELSE IF presym < 16 THEN x.i
    ELSE IF presym = 16 THEN x.i + 5
    ELSE IF presym = 17 THEN x.i + 9
    ELSE y.i - 1

no_header ==
    [num_litlen_syms |-> 0, num_offset_syms |-> 0, fields |-> << >>,
     precode_lens |-> << >>, precode_decode_table |-> << >>,
     x |-> [s |-> InputStream_new, lens |-> << >>, i |-> 0,
            failed |-> FALSE, done |-> FALSE],
     history |-> << >>, short |-> 0, stored_to |-> -1]

HeaderInit ==
    /\ call = [fn |-> "prepare", step |-> "block", later |-> FALSE,
               owner |-> << <<"none", union_size>> >>, stale_read |-> FALSE,
               h |-> no_header]
    /\ in_stream = InputStream_new
    /\ input = 1
    /\ out_nbytes_avail = 0
    /\ actual_out_nbytes_ret = NotSet
    /\ out = OutputBuffer_new
    /\ d = << >>
    /\ out_block = DeflateWindow_new
    /\ is_final_block = FALSE
    /\ last = no_symbol
    /\ pc = "call"
    /\ status = "running"

header_unchanged ==
    UNCHANGED <<input, out_nbytes_avail, actual_out_nbytes_ret, out, d,
                in_stream, out_block, is_final_block, last, pc, status>>

\* the calls and loops of prepare_dynamic in the order of lines 914-999
prepare_dynamic_steps_litlen_first ==
    <<"precode_lens", "build_precode", "expand", "build_litlen", "build_offset", "block">>

prepare_dynamic_steps ==
    <<"precode_lens", "build_precode", "expand", "build_offset", "build_litlen", "block">>

\* lines 1007-1019
prepare_static_steps ==
    <<"static_lens", "build_offset", "build_litlen", "block">>

steps_of(h) ==
    IF h.fields = << >> THEN prepare_static_steps ELSE prepare_dynamic_steps

\* the step after `step'
next_step(h, step) ==
    LET steps == steps_of(h)
    IN  steps[(CHOOSE k \in 1..Len(steps) : steps[k] = step) + 1]

\* lines 909-921: the counts are read and the precode lengths stored
PrecodeLens ==
    /\ call.fn = "prepare" /\ call.step = "block"
    /\ \E counts \in SymCounts, fields \in PrecodeFields :
          LET precode_lens ==
                 precode_lens_of(ensure_bits(fields_input(fields), InputStream_new,
                                             DEFLATE_NUM_PRECODE_SYMS * 3),
                                 Len(fields))
          IN  call' = [call EXCEPT
                 !.step = "build_precode",
                 !.owner = store_through(call.owner, precode_lens_offset,
                                       precode_lens_offset + DEFLATE_NUM_PRECODE_SYMS,
                                       "precode_lens"),
                 !.h = [no_header EXCEPT
                          !.num_litlen_syms = counts[1],
                          !.num_offset_syms = counts[2],
                          !.fields = fields,
                          !.precode_lens = precode_lens]]
    /\ header_unchanged

\* line 924
BuildPrecode ==
    /\ call.fn = "prepare" /\ call.step = "build_precode"
    /\ LET precode == build_precode_decode_table(call.h.precode_lens)
       IN  call' = [call EXCEPT
              !.step = IF precode.ok THEN next_step(call.h, "build_precode")
                       ELSE "abort",
              !.stale_read = call.stale_read
                             \/ ~bytes_of(call.owner, precode_lens_offset,
                                          precode_lens_offset + DEFLATE_NUM_PRECODE_SYMS,
                                          "precode_lens"),
              !.owner = store_ranges(call.owner, precode_decode_table_offset,
                                     written_ranges(precode.decode_table),
                                     "precode_decode_table"),
              !.h.precode_decode_table = precode.decode_table,
              \* lens shares its storage with precode_lens
              !.h.x.lens = Array(NUM_LENS, LAMBDA k :
                              IF k < DEFLATE_NUM_PRECODE_SYMS
                              THEN At(call.h.precode_lens, k) ELSE Stale)]
    /\ header_unchanged


\* a block's header is done: its lengths and its precode are not used
\* again, and the next block's header finds what this one stored
header_end(c) ==
    IF c.step = "block" THEN [c EXCEPT !.h = no_header, !.later = TRUE] ELSE c

\* lines 927-996: one pass of the loop, on a stream that starts with a
\* codeword of the precode
Expand ==
    /\ call.fn = "prepare" /\ call.step = "expand"
    /\ \E presym \in decoded_presyms(call.h.precode_decode_table) \cap 0..18 :
       \E extra \in ExtraBits(presym) :
          LET h == call.h
              short == h.short + (IF presym = 18 /\ extra = 127 THEN 0 ELSE 1)
              in_pass == presym_input(h.precode_decode_table, presym, extra)
              index == bits(ensure_bits(in_pass, InputStream_new,
                                        DEFLATE_MAX_PRE_CODEWORD_LEN + 7),
                            DEFLATE_MAX_PRE_CODEWORD_LEN)
              y == expand_lens_pass(in_pass, [h.x EXCEPT !.s = InputStream_new],
                                    h.precode_decode_table,
                                    h.num_litlen_syms + h.num_offset_syms)
              up_to == stored_up_to(h.x, y, presym)
          IN  /\ short <= MaxShort
              /\ call' = [call EXCEPT
                    !.step = IF ~y.done THEN "expand"
                             ELSE IF y.failed THEN "abort"
                             ELSE next_step(h, "expand"),
                    !.stale_read =
                        \/ call.stale_read
                        \/ ~bytes_of(call.owner,
                                     precode_decode_table_offset + 4 * index,
                                     precode_decode_table_offset + 4 * index + 4,
                                     "precode_decode_table")
                        \/ /\ presym = 16 /\ h.x.i # 0
                           /\ ~bytes_of(call.owner, lens_offset + h.x.i - 1,
                                        lens_offset + h.x.i, "lens"),
                    !.owner = store_through(call.owner, lens_offset + h.x.i,
                                          lens_offset + up_to + 1, "lens"),
                    !.h.x = y,
                    !.h.history = Append(h.history, <<presym, extra>>),
                    !.h.short = short,
                    !.h.stored_to = Max(h.stored_to, up_to)]
    /\ header_unchanged

\* lines 1007-1016
PrepareStaticLens ==
    /\ call.fn = "prepare" /\ call.step = "block"
    /\ call' = [call EXCEPT
          !.step = next_step(no_header, "static_lens"),
          !.owner = store_through(call.owner, lens_offset,
                                lens_offset + Len(static_lens), "lens"),
          !.h = [no_header EXCEPT
                   !.num_litlen_syms = DEFLATE_NUM_LITLEN_SYMS,
                   !.num_offset_syms = DEFLATE_NUM_OFFSET_SYMS,
                   !.x.lens = Array(NUM_LENS, LAMBDA k :
                                 IF k < Len(static_lens) THEN At(static_lens, k)
                                 ELSE Stale),
                   !.x.i = Len(static_lens),
                   !.x.done = TRUE,
                   !.stored_to = Len(static_lens) - 1]]
    /\ header_unchanged

\* lines 998 and 1018.  build_decode_table reads lens (lines 631-644); the
\* offset table has storage of its own.
BuildOffset ==
    /\ call.fn = "prepare" /\ call.step = "build_offset"
    /\ LET h == call.h
           offset == build_offset_decode_table(h.x.lens, h.num_litlen_syms,
                                               h.num_offset_syms)
       IN  call' = header_end([call EXCEPT
              !.step = IF offset.ok THEN next_step(h, "build_offset") ELSE "abort",
              !.stale_read =
                  call.stale_read
                  \/ ~bytes_of(call.owner, lens_offset + h.num_litlen_syms,
                               lens_offset + h.num_litlen_syms + h.num_offset_syms,
                               "lens")])
    /\ header_unchanged

\* lines 999 and 1019.  build_decode_table reads lens (lines 631-644) before
\* it stores to the table (from line 752 on).
BuildLitlen ==
    /\ call.fn = "prepare" /\ call.step = "build_litlen"
    /\ LET h == call.h
           litlen == build_litlen_decode_table(h.x.lens, h.num_litlen_syms,
                                               h.num_offset_syms)
       IN  call' = header_end([call EXCEPT
              !.step = IF litlen.ok THEN next_step(h, "build_litlen") ELSE "abort",
              !.stale_read =
                  call.stale_read
                  \/ ~bytes_of(call.owner, lens_offset,
                               lens_offset + h.num_litlen_syms, "lens"),
              !.owner = store_ranges(call.owner, litlen_decode_table_offset,
                                     written_ranges(litlen.decode_table),
                                     "litlen_decode_table")])
    /\ header_unchanged

HeaderNext ==
    \/ PrecodeLens
    \/ BuildPrecode
    \/ Expand
    \/ PrepareStaticLens
    \/ BuildOffset
    \/ BuildLitlen

HeaderSpec == HeaderInit /\ [][HeaderNext]_vars


\* C27: the arrays that share the union's storage are used one after the
\* other: every read through an array (the precode lengths by
\* build_precode_decode_table, an entry of the precode table and lens[i - 1]
\* by a pass of the expansion, the lengths by the builds of the offset and
\* of the litlen table) finds bytes that were last stored through that same
\* array, in the first block's header and in a later one.
C27_ScratchDiscipline ==
    call.fn = "prepare" => ~call.stale_read

\* the litlen table is about to be built in a second, dynamic, block: lens
\* and the precode table lie within what the first block's litlen table left
C27_Witness ==
    /\ call.fn = "prepare" /\ call.step = "build_litlen" /\ call.later
    /\ call.h.fields # << >>
    /\ bytes_of(call.owner, lens_offset, lens_offset + call.h.num_litlen_syms, "lens")
    /\ bytes_of(call.owner, precode_decode_table_offset,
                precode_decode_table_offset + 4 * PRECODE_ENOUGH,
                "precode_decode_table")
    /\ RunsAt(call.owner, precode_decode_table_offset + 4 * PRECODE_ENOUGH)
          = "litlen_decode_table"

\* RFC 1951, 3.2.7: the code lengths that a sequence of precode symbols with
\* their extra bits stands for
RECURSIVE code_lengths(_)
code_lengths(history) ==
    IF history = << >> THEN << >>
    ELSE LET before == code_lengths(SubSeq(history, 1, Len(history) - 1))
             presym == history[Len(history)][1]
             extra == history[Len(history)][2]
         IN  IF presym < 16 THEN Append(before, presym)
             ELSE IF presym = 16
             THEN before \o [k \in 1..(3 + extra) |-> before[Len(before)]]
             ELSE IF presym = 17 THEN before \o [k \in 1..(3 + extra) |-> 0]
             ELSE before \o [k \in 1..(11 + extra) |-> 0]

\* C28: after each pass of the expansion loop, and so after the loop,
\* lens[0 .. i) holds the code lengths of RFC 1951 for the precode symbols
\* decoded so far (16: 3 + 2 bits copies of the previous length, 17: 3 + 3
\* bits zeros, 18: 11 + 7 bits zeros), although 16 and 17 always store 6 and
\* 10 lengths; and each of the 19 precode lengths is its 3-bit field, at the
\* position the permutation gives, or zero if the header has no field for it.
C28_Expansion ==
    (call.fn = "prepare" /\ call.h.fields # << >>)
    => /\ \A sym \in 0..(DEFLATE_NUM_PRECODE_SYMS - 1) :
             LET k == CHOOSE k \in 1..DEFLATE_NUM_PRECODE_SYMS :
                         deflate_precode_lens_permutation[k] = sym
             IN  At(call.h.precode_lens, sym)
                    = IF k <= Len(call.h.fields) THEN call.h.fields[k] ELSE 0
       /\ call.step \in {"expand", "build_offset", "build_litlen"}
          => /\ LET lengths == code_lengths(call.h.history)
                IN  /\ call.h.x.i = Len(lengths)
                    /\ \A k \in 0..(call.h.x.i - 1) :
                          At(call.h.x.lens, k) = lengths[k + 1]
             /\ call.step # "expand"
                => call.h.x.i >= call.h.num_litlen_syms + call.h.num_offset_syms

\* a length 1, then three copies of it by a 16 that stored six: the later
\* zeros have replaced the other three
C28_Witness ==
    /\ call.fn = "prepare" /\ call.step = "build_offset"
    /\ Len(call.h.history) >= 3
    /\ call.h.history[1] = <<1, 0>>
    /\ call.h.history[2] = <<16, 0>>
    /\ At(call.h.x.lens, 3) = 1
    /\ At(call.h.x.lens, 4) = 0
    /\ Len(call.h.fields) = DEFLATE_NUM_PRECODE_SYMS

\* C29: no pass of the expansion stores to lens at an index of 288 + 32 + 137
\* or more, and the lengths that a build of a decode table reads are at most
\* the longest codeword of its code (7, 15 and 15).
C29_LensBounds ==
    call.fn = "prepare"
    => /\ call.h.stored_to < DEFLATE_NUM_LITLEN_SYMS + DEFLATE_NUM_OFFSET_SYMS
                                + DEFLATE_MAX_LENS_OVERRUN
       /\ call.h.stored_to < NUM_LENS
       /\ call.step = "build_precode"
          => \A sym \in 0..(DEFLATE_NUM_PRECODE_SYMS - 1) :
                At(call.h.precode_lens, sym) <= DEFLATE_MAX_PRE_CODEWORD_LEN
       /\ call.step = "build_offset"
          => \A k \in call.h.num_litlen_syms
                      ..(call.h.num_litlen_syms + call.h.num_offset_syms - 1) :
                At(call.h.x.lens, k) <= DEFLATE_MAX_OFFSET_CODEWORD_LEN
       /\ call.step = "build_litlen"
          => \A k \in 0..(call.h.num_litlen_syms - 1) :
                At(call.h.x.lens, k) <= DEFLATE_MAX_LITLEN_CODEWORD_LEN

\* a run of 138 zeros that starts at the last of 320 lengths: the store to
\* the last element of lens
C29_Witness ==
    /\ call.fn = "prepare" /\ call.step = "build_offset"
    /\ call.h.fields # << >>
    /\ call.h.stored_to = NUM_LENS - 1
    /\ call.h.x.i = DEFLATE_NUM_LITLEN_SYMS + DEFLATE_NUM_OFFSET_SYMS
                       + DEFLATE_MAX_LENS_OVERRUN

=============================================================================
